---- MODULE Spec2Model ----
(***************************************************************************)
(* Order placement, stock reservation and payment settlement of the        *)
(* e-commerce backend, in its two deployments:                             *)
(*   "json"   - the monolith: orders, products and payments in JSON files  *)
(*              (src/services/*.js);                                       *)
(*   "sqlite" - the microservices: the orders service and the payments     *)
(*              service keep their rows in SQLite through Sequelize        *)
(*              (src/orders/services, src/payments/services) while the     *)
(*              products stay in the JSON-file products service, which the *)
(*              orders service requires from ../../services.               *)
(* A handler of the monolith has no await that yields: it runs to         *)
(* completion in one step of the Node event loop and is one action.  A     *)
(* handler of the orders or payments service is cut at its awaits (Step):  *)
(* one action receives the request and `resume` resolves one await at a    *)
(* time, so that other requests are served in between.  SQLite lets one    *)
(* connection write at a time; an await that another transaction holds up  *)
(* waits or is refused (Blocked).                                          *)
(***************************************************************************)
EXTENDS Integers, Sequences, FiniteSets, TLC

VARIABLES variant, scope, products, orders, payments, notifications, calls

vars == <<variant, scope, products, orders, payments, notifications, calls>>

-----------------------------------------------------------------------------
(* Bounds of the model *)

MaxStock == 2
MaxQty == 2
MaxItems == 2
MaxOrders == 1
MaxPayments == 1

MaxOf(S) == CHOOSE m \in S : \A x \in S : x <= m

(* Identifiers of the products products.json starts with, and one          *)
(* identifier that is not among them.                                       *)
PIDs == {1, 2}
UnknownPID == MaxOf(PIDs) + 1
Prices == {1, 2}

(* products.json holds at most MaxProducts records. *)
MaxProducts == 3

(* The inputs a specification draws from are fixed by its scope:            *)
(*   "stock"  quantities and stock patches of either sign, one price;       *)
(*   "price"  prices that change, quantity MaxQty, stocks that are >= 0;    *)
(*   "fault"  as "stock", and a write of the orders may fail;               *)
(*   "e2e"    the stock, price and quantities of the end-to-end scenario;   *)
(*   "settle" quantity 1, and one payment more than elsewhere;              *)
(*   "catalog" stocks and quantities 0 or MaxStock, and the administrator's  *)
(*            product requests carry any of the fields id,                  *)
(*            stock_disponible, precio, activo;                             *)
(*   "race"   two requests of one handler in flight, kept when they have    *)
(*            returned; the gateway accepts;                                *)
(*   "async"  two requests of any handlers in flight on one order.          *)
Scopes == {"stock", "price", "fault", "e2e", "settle", "catalog", "race", "async"}

(* The end-to-end scenario: a product with stock 10 and price 5, an order   *)
(* of 3 units.                                                              *)
Scenario == [stock |-> 10, precio |-> 5, cantidad |-> 3]

(* Line-item quantities a request body can carry: the route passes the body *)
(* to createOrder unvalidated, so non-positive quantities get through.      *)
QtyInputs ==
  IF scope = "price" THEN {MaxQty}
  ELSE IF scope = "e2e" THEN 1..Scenario.cantidad
  ELSE IF scope = "settle" THEN {1}
  ELSE IF scope = "catalog" THEN {MaxStock}
  ELSE {-1} \cup (1..MaxQty)
StockInputs ==
  IF scope = "price" THEN 0..MaxStock
  ELSE IF scope = "catalog" THEN {0, MaxStock}
  ELSE (-1)..MaxStock
StockDeltas ==
  IF scope = "catalog" THEN {-MaxStock, MaxStock}
  ELSE {d \in (-MaxQty)..MaxQty : d # 0}
PriceInputs ==
  IF scope = "price" THEN Prices
  ELSE IF scope = "e2e" THEN {Scenario.precio}
  ELSE {CHOOSE p \in Prices : \A q \in Prices : p <= q}

Variants == {"json", "sqlite"}
Procs == {1, 2}

-----------------------------------------------------------------------------
(* config/config.js *)

ORDER_STATUSES == {"PENDING", "PROCESSING", "SHIPPED", "DELIVERED", "CANCELLED"}
PAYMENT_STATUSES == {"PENDING", "COMPLETED", "FAILED", "REFUNDED"}
PAYMENT_GATEWAYS == {"paypal", "stripe"}

StatusInputs == ORDER_STATUSES \cup {"RETURNED"}
PaymentStatusInputs == PAYMENT_STATUSES \cup {"CANCELLED"}
GatewayInputs == {"paypal", "bitcoin"}

-----------------------------------------------------------------------------
(* Helpers *)

Abs(x) == IF x < 0 THEN -x ELSE x

SeqsUpTo(S, n) == UNION {[1..k -> S] : k \in 1..n}

Item == [producto_id : PIDs \cup {UnknownPID}, cantidad : QtyInputs]
ItemLists == SeqsUpTo(Item, MaxItems)
OneItemLists == {items \in ItemLists : Len(items) = 1}

OrderIds == {orders[i].numeroPedido : i \in 1..Len(orders)}
PaymentIds == {payments[i].id : i \in 1..Len(payments)}

(* orders.findIndex(o => o.numeroPedido === orderId) / Order.findByPk: 0 = absent *)
FindIndex(os, orderId) ==
  IF \E i \in 1..Len(os) : os[i].numeroPedido = orderId
  THEN CHOOSE i \in 1..Len(os) :
         /\ os[i].numeroPedido = orderId
         /\ \A j \in 1..(i - 1) : os[j].numeroPedido # orderId
  ELSE 0

Ret(op, success, message) == [op |-> op, success |-> success, message |-> message, k |-> 0]

-----------------------------------------------------------------------------
(* productsService (JSON file), used by both deployments *)

(* products.json is an array of records; find / findIndex(p => p.id ===     *)
(* productId) give the first record with the identifier: 0 = absent.        *)
FindProduct(prods, productId) ==
  IF \E i \in 1..Len(prods) : prods[i].id = productId
  THEN CHOOSE i \in 1..Len(prods) :
         /\ prods[i].id = productId
         /\ \A j \in 1..(i - 1) : prods[j].id # productId
  ELSE 0

ProductIds(prods) == {prods[i].id : i \in 1..Len(prods)}

(* The stock of the record productId names; productId is present *)
StockOf(prods, productId) == prods[FindProduct(prods, productId)].stock_disponible

PriceOf(prods, productId) == prods[FindProduct(prods, productId)].precio

GetProductById(prods, productId) ==
  LET productIndex == FindProduct(prods, productId)
  IN IF productIndex # 0
     THEN [success |-> TRUE, id |-> prods[productIndex].id,
           stock_disponible |-> prods[productIndex].stock_disponible,
           precio |-> prods[productIndex].precio]
     ELSE [success |-> FALSE, id |-> productId, stock_disponible |-> 0, precio |-> 0]

(* updateStock without the insufficient-stock check of a reduction. *)
UpdateStockUnchecked(prods, productId, quantity) ==
  LET productIndex == FindProduct(prods, productId)
  IN IF productIndex = 0
     THEN [success |-> FALSE, message |-> "Producto no encontrado", products |-> prods]
     ELSE [success |-> TRUE, message |-> "Stock actualizado correctamente",
           products |-> [prods EXCEPT ![productIndex].stock_disponible = @ + quantity]]

(* updateStock refusing a reduction that takes the whole stock. *)
UpdateStockOffByOne(prods, productId, quantity) ==
  LET productIndex == FindProduct(prods, productId)
  IN IF productIndex = 0
     THEN [success |-> FALSE, message |-> "Producto no encontrado", products |-> prods]
     ELSE IF quantity < 0 /\ prods[productIndex].stock_disponible <= Abs(quantity)
     THEN [success |-> FALSE, message |-> "Stock insuficiente", products |-> prods]
     ELSE [success |-> TRUE, message |-> "Stock actualizado correctamente",
           products |-> [prods EXCEPT ![productIndex].stock_disponible = @ + quantity]]

UpdateStock(prods, productId, quantity) ==
  LET productIndex == FindProduct(prods, productId)
  IN IF productIndex = 0
     THEN [success |-> FALSE, message |-> "Producto no encontrado", products |-> prods]
     ELSE IF quantity < 0 /\ prods[productIndex].stock_disponible < Abs(quantity)
     THEN [success |-> FALSE, message |-> "Stock insuficiente", products |-> prods]
     ELSE [success |-> TRUE, message |-> "Stock actualizado correctamente",
           products |-> [prods EXCEPT ![productIndex].stock_disponible = @ + quantity]]

(* total += producto.precio * item.cantidad; LineTotalOnce adds the price once. *)
LineTotalOnce(precio, cantidad) == precio

LineTotal(precio, cantidad) == precio * cantidad

(* The fields of a product record the model keeps; nombre, descripcion and *)
(* the rest are carried along and read by no operation.                    *)
ProductFields == {"id", "stock_disponible", "precio", "activo"}

IdInputs == PIDs \cup {UnknownPID}

(* A body of PUT /api/products/:id: `fields` are the fields it carries, the *)
(* other components give their values (and are 0 / TRUE for a field the     *)
(* body does not carry).  Outside the scope "catalog" a body carries a      *)
(* stock or a price.                                                        *)
Patch(fields, id, stock, precio, activo) ==
  [fields |-> fields,
   id |-> IF "id" \in fields THEN id ELSE 0,
   stock_disponible |-> IF "stock_disponible" \in fields THEN stock ELSE 0,
   precio |-> IF "precio" \in fields THEN precio ELSE 0,
   activo |-> IF "activo" \in fields THEN activo ELSE TRUE]

ProductPatches ==
  {Patch(fields, id, stock, precio, activo) :
     fields \in IF scope = "catalog" THEN SUBSET ProductFields
                ELSE {{"stock_disponible"}, {"precio"}},
     id \in IdInputs, stock \in StockInputs, precio \in PriceInputs,
     activo \in BOOLEAN}

PricePatches == {patch \in ProductPatches : patch.fields = {"precio"}}

(* products[i] = { ...products[i], ...productData }: every field the body *)
(* carries overwrites the stored one, the identifier included.            *)
UpdateProduct(prods, productId, patch) ==
  LET productIndex == FindProduct(prods, productId)
      old == IF productIndex = 0 THEN [id |-> 0, stock_disponible |-> 0,
                                       precio |-> 0, activo |-> TRUE]
             ELSE prods[productIndex]
      merged == [id |-> IF "id" \in patch.fields THEN patch.id ELSE old.id,
                 stock_disponible |-> IF "stock_disponible" \in patch.fields
                                      THEN patch.stock_disponible
                                      ELSE old.stock_disponible,
                 precio |-> IF "precio" \in patch.fields THEN patch.precio
                            ELSE old.precio,
                 activo |-> IF "activo" \in patch.fields THEN patch.activo
                            ELSE old.activo]
  IN IF productIndex = 0
     THEN [success |-> FALSE, message |-> "Producto no encontrado", products |-> prods]
     ELSE [success |-> TRUE, message |-> "",
           products |-> [prods EXCEPT ![productIndex] = merged]]

(* productsService.createProduct: the new record takes the identifier after *)
(* the largest one in the file and is active unless the body says otherwise *)
NextProductId(prods) ==
  IF Len(prods) > 0 THEN MaxOf(ProductIds(prods)) + 1 ELSE 1

ProductData ==
  [stock_disponible : StockInputs, precio : PriceInputs, activo : BOOLEAN]

CreateProduct(prods, productData) ==
  [success |-> TRUE, message |-> "",
   products |-> Append(prods, [id |-> NextProductId(prods),
                               stock_disponible |-> productData.stock_disponible,
                               precio |-> productData.precio,
                               activo |-> productData.activo])]

(* productsService.deleteProduct: products[i].activo = false, the record stays *)
DeleteProduct(prods, productId) ==
  LET productIndex == FindProduct(prods, productId)
  IN IF productIndex = 0
     THEN [success |-> FALSE, message |-> "Producto no encontrado", products |-> prods]
     ELSE [success |-> TRUE, message |-> "Producto eliminado correctamente",
           products |-> [prods EXCEPT ![productIndex].activo = FALSE]]

-----------------------------------------------------------------------------
(* ordersService.createOrder, JSON file *)

(* cliente_id: req.user.id, the authenticated customer placing the order *)
Customers == {1}
Customer == CHOOSE c \in Customers : TRUE

NewOrder(id, productos, total) ==
  [numeroPedido |-> id, cliente_id |-> Customer, productos |-> productos,
   total |-> total, estadoPedido |-> "PENDING", estadoPago |-> "PENDING"]

CreateFail(prods, message, k) ==
  [success |-> FALSE, message |-> message, k |-> k, products |-> prods,
   productos |-> <<>>, total |-> 0]

RECURSIVE JsonCreateLoop(_, _, _, _, _)
JsonCreateLoop(prods, items, i, productos, total) ==
  IF i > Len(items)
  THEN [success |-> TRUE, message |-> "", k |-> 0, products |-> prods,
        productos |-> productos, total |-> total]
  ELSE
    LET item == items[i]
        producto == GetProductById(prods, item.producto_id)
    IN IF ~producto.success
       THEN CreateFail(prods, "Producto no encontrado", i)
       ELSE IF producto.stock_disponible < item.cantidad
       THEN CreateFail(prods, "Stock insuficiente para el producto", i)
       ELSE
         LET stockResult == UpdateStock(prods, producto.id, -item.cantidad)
         IN IF ~stockResult.success
            THEN CreateFail(prods, stockResult.message, i)
            ELSE JsonCreateLoop(
                   stockResult.products, items, i + 1,
                   Append(productos,
                          [producto_id |-> producto.id, cantidad |-> item.cantidad,
                           precio_unitario |-> producto.precio]),
                   total + LineTotal(producto.precio, item.cantidad))

JsonNextOrderId(os) ==
  IF Len(os) > 0 THEN MaxOf({os[i].numeroPedido : i \in 1..Len(os)}) + 1 ELSE 1001

JsonCreateOrder(prods, os, items) ==
  LET r == JsonCreateLoop(prods, items, 1, <<>>, 0)
  IN IF r.success
     THEN [products |-> r.products,
           orders |-> Append(os, NewOrder(JsonNextOrderId(os), r.productos, r.total)),
           ret |-> [op |-> "createOrder", success |-> TRUE, message |-> "", k |-> 0]]
     ELSE [products |-> r.products, orders |-> os,
           ret |-> [op |-> "createOrder", success |-> FALSE, message |-> r.message,
                    k |-> r.k]]


-----------------------------------------------------------------------------
(* ordersService.updateOrderStatus and updatePaymentStatus *)

JsonUpdateOrderStatus(os, orderId, status) ==
  LET orderIndex == FindIndex(os, orderId)
  IN IF orderIndex = 0
     THEN [orders |-> os, ret |-> Ret("updateOrderStatus", FALSE, "Orden no encontrada")]
     ELSE IF status \notin ORDER_STATUSES
     THEN [orders |-> os, ret |-> Ret("updateOrderStatus", FALSE, "Estado no valido")]
     ELSE [orders |-> [os EXCEPT ![orderIndex].estadoPedido = status],
           ret |-> Ret("updateOrderStatus", TRUE, "")]


(* updatePaymentStatus without the validation of the payment status *)
JsonUpdatePaymentStatusUnvalidated(os, orderId, paymentStatus) ==
  LET orderIndex == FindIndex(os, orderId)
  IN IF orderIndex = 0
     THEN [orders |-> os, ret |-> Ret("updatePaymentStatus", FALSE, "Orden no encontrada")]
     ELSE [orders |->
             [os EXCEPT
                ![orderIndex].estadoPago = paymentStatus,
                ![orderIndex].estadoPedido =
                   IF paymentStatus = "COMPLETED" /\ @ = "PENDING"
                   THEN "PROCESSING" ELSE @],
           ret |-> Ret("updatePaymentStatus", TRUE, "")]

(* updatePaymentStatus advancing the order to PROCESSING whatever its status *)
JsonUpdatePaymentStatusAdvancesAny(os, orderId, paymentStatus) ==
  LET orderIndex == FindIndex(os, orderId)
  IN IF orderIndex = 0
     THEN [orders |-> os, ret |-> Ret("updatePaymentStatus", FALSE, "Orden no encontrada")]
     ELSE IF paymentStatus \notin PAYMENT_STATUSES
     THEN [orders |-> os,
           ret |-> Ret("updatePaymentStatus", FALSE, "Estado de pago no valido")]
     ELSE [orders |->
             [os EXCEPT
                ![orderIndex].estadoPago = paymentStatus,
                ![orderIndex].estadoPedido =
                   IF paymentStatus = "COMPLETED" THEN "PROCESSING" ELSE @],
           ret |-> Ret("updatePaymentStatus", TRUE, "")]

JsonUpdatePaymentStatus(os, orderId, paymentStatus) ==
  LET orderIndex == FindIndex(os, orderId)
  IN IF orderIndex = 0
     THEN [orders |-> os, ret |-> Ret("updatePaymentStatus", FALSE, "Orden no encontrada")]
     ELSE IF paymentStatus \notin PAYMENT_STATUSES
     THEN [orders |-> os,
           ret |-> Ret("updatePaymentStatus", FALSE, "Estado de pago no valido")]
     ELSE [orders |->
             [os EXCEPT
                ![orderIndex].estadoPago = paymentStatus,
                ![orderIndex].estadoPedido =
                   IF paymentStatus = "COMPLETED" /\ @ = "PENDING"
                   THEN "PROCESSING" ELSE @],
           ret |-> Ret("updatePaymentStatus", TRUE, "")]


-----------------------------------------------------------------------------
(* ordersService.cancelOrder *)

(* A cancellation guard that also refuses a PROCESSING order. *)
NotCancellableOnceProcessing(estadoPedido) ==
  estadoPedido \in {"PROCESSING", "SHIPPED", "DELIVERED"}

(* A cancellation guard that refuses only a DELIVERED order. *)
NotCancellableDeliveredOnly(estadoPedido) == estadoPedido = "DELIVERED"

NotCancellable(estadoPedido) == estadoPedido \in {"SHIPPED", "DELIVERED"}

(* JSON: for (const item of order.productos) updateStock(...), results ignored. *)
(* k is the first line item whose release failed, 0 when none did.            *)
RECURSIVE JsonReleaseLoop(_, _, _, _)
JsonReleaseLoop(prods, productos, i, k) ==
  IF i > Len(productos) THEN [products |-> prods, k |-> k]
  ELSE LET stockResult == UpdateStock(prods, productos[i].producto_id,
                                      productos[i].cantidad)
       IN JsonReleaseLoop(stockResult.products, productos, i + 1,
                          IF k = 0 /\ ~stockResult.success THEN i ELSE k)

JsonCancelOrder(prods, os, orderId, saveOk) ==
  LET orderIndex == FindIndex(os, orderId)
  IN IF orderIndex = 0
     THEN [products |-> prods, orders |-> os,
           ret |-> Ret("cancelOrder", FALSE, "Orden no encontrada")]
     ELSE IF NotCancellable(os[orderIndex].estadoPedido)
     THEN [products |-> prods, orders |-> os,
           ret |-> Ret("cancelOrder", FALSE, "No se puede cancelar una orden en estado")]
     ELSE
       LET r == JsonReleaseLoop(prods, os[orderIndex].productos, 1, 0)
       IN [products |-> r.products,
           orders |-> IF saveOk
                      THEN [os EXCEPT ![orderIndex].estadoPedido = "CANCELLED"]
                      ELSE os,
           ret |-> [op |-> "cancelOrder", success |-> TRUE,
                    message |-> "Orden cancelada correctamente", k |-> r.k]]



-----------------------------------------------------------------------------
(* paymentsService *)

NewPayment(id, orderId, monto, gateway) ==
  [id |-> id, pedido_id |-> orderId, estado |-> "COMPLETED", monto |-> monto,
   pasarela |-> gateway]

JsonNextPaymentId(ps) ==
  IF Len(ps) > 0 THEN MaxOf({ps[i].id : i \in 1..Len(ps)}) + 1 ELSE 2001

SqlNextPaymentId(ps) ==
  IF Len(ps) > 0 THEN MaxOf({ps[i].id : i \in 1..Len(ps)}) + 1 ELSE 1

(* Monolith: the order's own payment status decides "already paid".         *)
(* updateOk: the write of the order by updatePaymentStatus takes effect;     *)
(* saveOk: the write of payments.json takes effect.  saveOrders and          *)
(* savePayments catch a failed write and return false, and neither           *)
(* updatePaymentStatus nor processPayment looks at what they return.         *)
JsonProcessPaymentF(os, ps, orderId, gateway, charged, updateOk, saveOk) ==
  LET orderIndex == FindIndex(os, orderId)
      same(message) == [orders |-> os, payments |-> ps,
                        ret |-> Ret("processPayment", FALSE, message)]
  IN IF gateway \notin PAYMENT_GATEWAYS THEN same("Pasarela de pago no valida")
     ELSE IF orderIndex = 0 THEN same("Orden no encontrada")
     ELSE IF os[orderIndex].estadoPago = "COMPLETED"
     THEN same("La orden ya ha sido pagada")
     ELSE IF ~charged THEN same("Error al procesar el pago")
     ELSE [orders |-> IF updateOk
                      THEN JsonUpdatePaymentStatus(os, orderId, "COMPLETED").orders
                      ELSE os,
           payments |-> IF saveOk
                        THEN Append(ps, NewPayment(JsonNextPaymentId(ps), orderId,
                                                   os[orderIndex].total, gateway))
                        ELSE ps,
           ret |-> Ret("processPayment", TRUE, "Pago procesado correctamente")]

(* processPayment without the test of the order's payment status *)
JsonProcessPaymentNoPaidCheck(os, ps, orderId, gateway, charged) ==
  LET orderIndex == FindIndex(os, orderId)
      same(message) == [orders |-> os, payments |-> ps,
                        ret |-> Ret("processPayment", FALSE, message)]
  IN IF gateway \notin PAYMENT_GATEWAYS THEN same("Pasarela de pago no valida")
     ELSE IF orderIndex = 0 THEN same("Orden no encontrada")
     ELSE IF ~charged THEN same("Error al procesar el pago")
     ELSE [orders |-> JsonUpdatePaymentStatus(os, orderId, "COMPLETED").orders,
           payments |-> Append(ps, NewPayment(JsonNextPaymentId(ps), orderId,
                                              os[orderIndex].total, gateway)),
           ret |-> Ret("processPayment", TRUE, "Pago procesado correctamente")]

(* processPayment marking the order FAILED when the gateway declines *)
JsonProcessPaymentMarksFailed(os, ps, orderId, gateway, charged) ==
  LET r == JsonProcessPaymentF(os, ps, orderId, gateway, charged, TRUE, TRUE)
  IN IF r.ret.message = "Error al procesar el pago"
     THEN [r EXCEPT !.orders = JsonUpdatePaymentStatus(os, orderId, "FAILED").orders]
     ELSE r

(* processPayment recording the payment with amount 0 *)
JsonProcessPaymentNoAmount(os, ps, orderId, gateway, charged) ==
  LET r == JsonProcessPaymentF(os, ps, orderId, gateway, charged, TRUE, TRUE)
  IN IF r.ret.success
     THEN [r EXCEPT !.payments[Len(r.payments)].monto = 0]
     ELSE r

JsonProcessPayment(os, ps, orderId, gateway, charged) ==
  JsonProcessPaymentF(os, ps, orderId, gateway, charged, TRUE, TRUE)



(* paymentsService.cancelPayment: only a PENDING payment is cancelled.  The  *)
(* status written, 'CANCELLED', is not one of config.PAYMENT_STATUSES, so    *)
(* the updatePaymentStatus that follows is refused and the order keeps its   *)
(* payment status.                                                           *)
JsonCancelPayment(os, ps, paymentId) ==
  LET paymentIndex ==
        IF \E i \in 1..Len(ps) : ps[i].id = paymentId
        THEN CHOOSE i \in 1..Len(ps) : ps[i].id = paymentId
        ELSE 0
      same(message) == [orders |-> os, payments |-> ps,
                        ret |-> Ret("cancelPayment", FALSE, message)]
  IN IF paymentIndex = 0 THEN same("Pago no encontrado")
     ELSE IF ps[paymentIndex].estado # "PENDING"
     THEN same("No se puede cancelar un pago en estado")
     ELSE [orders |-> JsonUpdatePaymentStatus(os, ps[paymentIndex].pedido_id,
                                              "CANCELLED").orders,
           payments |-> [ps EXCEPT ![paymentIndex].estado = "CANCELLED"],
           ret |-> Ret("cancelPayment", TRUE, "Pago cancelado correctamente")]


FindPayment(ps, paymentId) ==
  IF \E i \in 1..Len(ps) : ps[i].id = paymentId
  THEN CHOOSE i \in 1..Len(ps) : ps[i].id = paymentId
  ELSE 0

(* amount || payment.monto: an absent or zero amount refunds the whole payment *)
(* A refund amount clamped to the payment's amount instead of refused *)
RefundAmountClamped(amount, monto) ==
  IF amount = 0 THEN monto ELSE IF amount > monto THEN monto ELSE amount

RefundAmount(amount, monto) == IF amount = 0 THEN monto ELSE amount

(* Monolith.  saveOk: the write of payments.json takes effect; updateOk:  *)
(* the write of the order by updatePaymentStatus takes effect.  Neither    *)
(* result is looked at.                                                    *)
JsonProcessRefundF(os, ps, paymentId, amount, updateOk, saveOk) ==
  LET paymentIndex == FindPayment(ps, paymentId)
      same(message) == [orders |-> os, payments |-> ps,
                        ret |-> Ret("processRefund", FALSE, message)]
  IN IF paymentIndex = 0 THEN same("Pago no encontrado")
     ELSE IF ps[paymentIndex].estado # "COMPLETED"
     THEN same("Solo se pueden reembolsar pagos completados")
     ELSE IF RefundAmount(amount, ps[paymentIndex].monto) > ps[paymentIndex].monto
     THEN same("El monto a reembolsar no puede exceder el monto del pago")
     ELSE [orders |-> IF updateOk
                      THEN JsonUpdatePaymentStatus(os, ps[paymentIndex].pedido_id,
                                                   "REFUNDED").orders
                      ELSE os,
           payments |-> IF saveOk
                        THEN [ps EXCEPT ![paymentIndex].estado = "REFUNDED"]
                        ELSE ps,
           ret |-> Ret("processRefund", TRUE, "Reembolso procesado correctamente")]

JsonProcessRefund(os, ps, paymentId, amount) ==
  JsonProcessRefundF(os, ps, paymentId, amount, TRUE, TRUE)

-----------------------------------------------------------------------------
(* Orders service and payments service (SQLite): one step per await.        *)
(* A call is a record; c.op names the handler and c.pc the await the call   *)
(* is suspended on:                                                         *)
(*   "tx"          sequelize.transaction()                                  *)
(*   "getProduct"  productsService.getProductById(items[i]), result in pr   *)
(*   "orderCreate" Order.create                                             *)
(*   "itemCreate"  OrderProduct.create for productos[i]                     *)
(*   "updateStock" productsService.updateStock(productos[i]), result in sr  *)
(*   "release"     productsService.updateStock of cancelOrder, result in sr *)
(*   "getOrder"    ordersClient.getOrderById                                *)
(*   "find"        findByPk / findOne; the row it reads is in order or row  *)
(*   "create"      Payment.create                                           *)
(*   "save"        save() of the row read                                   *)
(*   "update"      ordersClient.updatePaymentStatus: the PATCH reaches the  *)
(*                 orders service and its handler awaits Order.findByPk     *)
(*   "updateSave"  the handler of the PATCH awaits order.save()             *)
(*   "commit"      transaction.commit()                                     *)
(*   "rollback"    transaction.rollback() before a failure is returned      *)
(* The synchronous code in front of an await (the read of the product, the  *)
(* stock update, the gateway) runs in the step that reaches the await.      *)
(* Rows written in a transaction are in the call record until the commit;   *)
(* the products file is outside the transaction and is written at once.     *)
(* c.lock is what the call's connection holds on its database file: a read  *)
(* inside a transaction keeps SHARED and a write keeps RESERVED until the   *)
(* transaction ends; a write that has to wait for the readers of the file   *)
(* holds RESERVED and PENDING ("pending") while it waits.  c.served is the  *)
(* lock of the orders service's connection that serves the PATCH of a       *)
(* payments call.  c.complete: the body of the createOrder request carries  *)
(* cliente_id, metodoPago, "dirección" and telefono, the columns of the     *)
(* orders table that do not allow NULL.                                     *)

NoResult == [success |-> FALSE, message |-> ""]
NoProduct == [success |-> FALSE, id |-> 0, stock_disponible |-> 0, precio |-> 0]
NoRet == [op |-> "none", success |-> FALSE, message |-> "", k |-> 0]
NoOrder ==
  [numeroPedido |-> 0, cliente_id |-> 0, productos |-> <<>>, total |-> 0,
   estadoPedido |-> "", estadoPago |-> ""]
NoRow == [id |-> 0, pedido_id |-> 0, estado |-> "", monto |-> 0, pasarela |-> ""]

IdleCall ==
  [op |-> "none", pc |-> "idle", items |-> <<>>, i |-> 0, productos |-> <<>>,
   total |-> 0, pr |-> NoProduct, sr |-> NoResult, newId |-> 0, orderId |-> 0,
   paymentId |-> 0, status |-> "", gateway |-> "", amount |-> 0,
   order |-> NoOrder, row |-> NoRow, lock |-> "none", served |-> "none",
   complete |-> TRUE, ret |-> NoRet]

NewCall(items) == [IdleCall EXCEPT !.op = "createOrder", !.pc = "tx", !.items = items]

(* createOrder(orderData): the line items and whether the body is complete *)
BodyCall(items, complete) == [NewCall(items) EXCEPT !.complete = complete]

StatusCall(orderId, status) ==
  [IdleCall EXCEPT !.op = "updateOrderStatus", !.pc = "find", !.orderId = orderId,
                   !.status = status]

PayStatusCall(orderId, paymentStatus) ==
  [IdleCall EXCEPT !.op = "updatePaymentStatus", !.pc = "find", !.orderId = orderId,
                   !.status = paymentStatus]

CancelCall(orderId) ==
  [IdleCall EXCEPT !.op = "cancelOrder", !.pc = "tx", !.orderId = orderId]

PayCall(orderId, gateway) ==
  [IdleCall EXCEPT !.op = "processPayment", !.pc = "tx", !.orderId = orderId,
                   !.gateway = gateway]

VoidCall(paymentId) ==
  [IdleCall EXCEPT !.op = "cancelPayment", !.pc = "tx", !.paymentId = paymentId]

RefundCall(paymentId, amount) ==
  [IdleCall EXCEPT !.op = "processRefund", !.pc = "tx", !.paymentId = paymentId,
                   !.amount = amount]

(* The handler returns: the connection is back in the pool *)
Finish(c, ret) ==
  [IdleCall EXCEPT !.op = c.op, !.pc = "done", !.items = c.items,
                   !.orderId = c.orderId, !.paymentId = c.paymentId,
                   !.status = c.status, !.gateway = c.gateway,
                   !.amount = c.amount, !.ret = ret]

(* commit() was refused: the transaction is marked finished, so the         *)
(* rollback() of the catch block throws and the handler's promise rejects    *)
Rejected == "Transaction cannot be rolled back because it has been finished with state: commit"

Out(c, prods, os, ps) == [c |-> c, products |-> prods, orders |-> os, payments |-> ps]

(* numero_pedido is AUTOINCREMENT: one more than the largest id in the table *)
SqlNextOrderId(os) ==
  IF Len(os) = 0 THEN 1 ELSE MaxOf({os[i].numeroPedido : i \in 1..Len(os)}) + 1

(* What the handler assigns to the order it has read, before save() *)
Assigned(c) ==
  IF c.op = "updateOrderStatus" THEN [c.order EXCEPT !.estadoPedido = c.status]
  ELSE IF c.op = "cancelOrder" THEN [c.order EXCEPT !.estadoPedido = "CANCELLED"]
  ELSE [c.order EXCEPT
          !.estadoPago = c.status,
          !.estadoPedido = IF c.status = "COMPLETED" /\ @ = "PENDING"
                           THEN "PROCESSING" ELSE @]

(* save() sends an UPDATE only when a field differs from the value read *)
Dirty(c) ==
  \/ Assigned(c).estadoPedido # c.order.estadoPedido
  \/ Assigned(c).estadoPago # c.order.estadoPago

(* order.save(): the UPDATE sets the fields that differ from the values read *)
SaveOrder(os, c) ==
  LET orderIndex == FindIndex(os, c.order.numeroPedido)
  IN [os EXCEPT
        ![orderIndex].estadoPedido =
           IF Assigned(c).estadoPedido # c.order.estadoPedido
           THEN Assigned(c).estadoPedido ELSE @,
        ![orderIndex].estadoPago =
           IF Assigned(c).estadoPago # c.order.estadoPago
           THEN Assigned(c).estadoPago ELSE @]

(* The database file the await works on: the PATCH of the payments service  *)
(* is served by the orders service                                          *)
Database(c) ==
  IF c.op \in {"processPayment", "cancelPayment", "processRefund"}
     /\ c.pc \notin {"getOrder", "update", "updateSave"}
  THEN "payments" ELSE "orders"

(* The file on which the call's transaction holds its lock *)
LockedDatabase(c) ==
  IF c.op \in {"processPayment", "cancelPayment", "processRefund"}
  THEN "payments" ELSE "orders"

(* The lock the connection that runs the await holds on that file *)
Own(c) == IF Database(c) = LockedDatabase(c) THEN c.lock ELSE c.served

(* The locks the connections of a call hold on the file db *)
LocksOn(o, db) ==
  (IF LockedDatabase(o) = db THEN {o.lock} ELSE {})
    \cup (IF db = "orders" THEN {o.served} ELSE {})

(* What the await asks of the file: a read ("read"), a write inside the     *)
(* call's transaction ("txWrite"), a write on a connection of its own       *)
(* ("write"), the commit of a transaction that has written ("commit"), or   *)
(* nothing that can be held up                                              *)
Needs(c) ==
  CASE c.pc \in {"orderCreate", "itemCreate", "create"} -> "txWrite"
    [] c.pc = "save" /\ c.op \in {"cancelPayment", "processRefund"} -> "txWrite"
    [] c.pc = "save" /\ c.op = "cancelOrder" ->
         IF Dirty(c) THEN "txWrite" ELSE "none"
    [] c.pc = "save" /\ c.op \in {"updateOrderStatus", "updatePaymentStatus"} ->
         IF Dirty(c) THEN "write" ELSE "none"
    [] c.pc = "updateSave" -> IF Dirty(c) THEN "write" ELSE "none"
    [] c.pc = "commit" -> IF c.lock \in {"reserved", "pending"} THEN "commit" ELSE "none"
    [] c.pc \in {"find", "getOrder", "update"} -> "read"
    [] OTHER -> "none"

(* SQLite lets one connection write at a time.  A read needs SHARED, which  *)
(* another connection's PENDING holds up; a write inside a transaction      *)
(* needs RESERVED, which another connection's RESERVED holds up; a commit   *)
(* and a write outside a transaction need EXCLUSIVE, which any other        *)
(* connection's lock holds up.                                              *)
Blocked(c, others) ==
  LET held(levels) ==
        \E o \in others : LocksOn(o, Database(c)) \cap levels # {}
  IN CASE Needs(c) = "read" -> Own(c) = "none" /\ held({"pending"})
       [] Needs(c) = "txWrite" ->
            Own(c) \in {"none", "shared"} /\ held({"reserved", "pending"})
       [] Needs(c) \in {"write", "commit"} ->
            held({"shared", "reserved", "pending"})
       [] OTHER -> FALSE

(* The await needs EXCLUSIVE and only readers are in its way: the statement *)
(* takes RESERVED and PENDING and waits for the readers to end.  Until it   *)
(* goes through or gives up, no other connection gets RESERVED or a new     *)
(* SHARED.                                                                  *)
Queues(c, others) ==
  /\ Needs(c) \in {"write", "commit"}
  /\ Own(c) # "pending"
  /\ \E o \in others : "shared" \in LocksOn(o, Database(c))
  /\ \A o \in others : LocksOn(o, Database(c)) \cap {"reserved", "pending"} = {}

Queue(c) ==
  IF Database(c) = LockedDatabase(c) THEN [c EXCEPT !.lock = "pending"]
  ELSE [c EXCEPT !.served = "pending"]

(* What the step of a call depends on besides the files: busy, the await is *)
(* rejected with SQLITE_BUSY (at once when the connection holds a lock      *)
(* another connection may be waiting for, otherwise when the busy timeout   *)
(* and the retries have run out); charged, the gateway accepts the payment; *)
(* updateOk, the PATCH of the order's payment status gets through; saveOk,  *)
(* the write of the row does not throw                                      *)
Env(busy, charged, updateOk, saveOk) ==
  [busy |-> busy, charged |-> charged, updateOk |-> updateOk, saveOk |-> saveOk]

Calm == Env(FALSE, TRUE, TRUE, TRUE)

IssueGet(c, prods, i) ==
  [c EXCEPT !.pc = "getProduct", !.i = i,
            !.pr = GetProductById(prods, c.items[i].producto_id)]

IssueOrderCreate(c) == [c EXCEPT !.pc = "orderCreate", !.i = 0, !.pr = NoProduct]

IssueRollback(c, message, k) ==
  [c EXCEPT !.pc = "rollback", !.newId = 0, !.pr = NoProduct, !.sr = NoResult,
            !.order = NoOrder, !.row = NoRow, !.i = 0, !.productos = <<>>,
            !.total = 0,
            !.ret = [op |-> c.op, success |-> FALSE, message |-> message, k |-> k]]

IssueItemCreate(c, j) == [c EXCEPT !.pc = "itemCreate", !.i = j, !.sr = NoResult]

IssueCommit(c) == [c EXCEPT !.pc = "commit", !.i = 0, !.sr = NoResult]

(* ordersService.createOrder.  The stock validation reads the products     *)
(* file only, so the transaction holds no lock when it reaches Order.create. *)
(* A rejected Order.create or OrderProduct.create (SQLITE_BUSY, a NULL in a *)
(* column that does not allow it) is caught: rollback and "Error al crear   *)
(* orden"; the products file keeps the stock taken for the earlier items.   *)
(* A rejected findByPk after the commit is caught too, and the rollback of  *)
(* the committed transaction throws.                                        *)
CreateStep(c, prods, os, ps, env) ==
  LET same(c2) == Out(c2, prods, os, ps)
  IN CASE c.pc = "tx" ->
            same(IF Len(c.items) = 0 THEN IssueOrderCreate(c)
                 ELSE IssueGet(c, prods, 1))
       [] c.pc = "getProduct" ->
            IF ~c.pr.success
            THEN same(IssueRollback(c, "Producto no encontrado", c.i))
            ELSE IF c.pr.stock_disponible < c.items[c.i].cantidad
            THEN same(IssueRollback(c, "Stock insuficiente para el producto", c.i))
            ELSE
              LET c1 == [c EXCEPT
                           !.productos =
                              Append(@, [producto_id |-> c.pr.id,
                                         cantidad |-> c.items[c.i].cantidad,
                                         precio_unitario |-> c.pr.precio]),
                           !.total = @ + LineTotal(c.pr.precio, c.items[c.i].cantidad)]
              IN same(IF c.i < Len(c.items) THEN IssueGet(c1, prods, c.i + 1)
                      ELSE IssueOrderCreate(c1))
       [] c.pc = "orderCreate" ->
            IF env.busy \/ ~env.saveOk \/ ~c.complete
            THEN same(IssueRollback(c, "Error al crear orden", 0))
            ELSE
              LET c1 == [c EXCEPT !.newId = SqlNextOrderId(os), !.lock = "reserved"]
              IN same(IF Len(c.productos) = 0 THEN IssueCommit(c1)
                      ELSE IssueItemCreate(c1, 1))
       [] c.pc = "itemCreate" ->
            IF env.busy \/ ~env.saveOk
            THEN same(IssueRollback(c, "Error al crear orden", c.i))
            ELSE
              LET item == c.productos[c.i]
                  stockResult == UpdateStock(prods, item.producto_id, -item.cantidad)
              IN Out([c EXCEPT !.pc = "updateStock",
                               !.sr = [success |-> stockResult.success,
                                       message |-> IF stockResult.success THEN ""
                                                   ELSE stockResult.message]],
                     stockResult.products, os, ps)
       [] c.pc = "updateStock" ->
            IF ~c.sr.success
            THEN same(IssueRollback(c, c.sr.message, c.i))
            ELSE same(IF c.i < Len(c.productos) THEN IssueItemCreate(c, c.i + 1)
                      ELSE IssueCommit(c))
       [] c.pc = "commit" ->
            IF env.busy THEN same(Finish(c, Ret(c.op, FALSE, Rejected)))
            ELSE Out([c EXCEPT !.pc = "find", !.newId = 0, !.lock = "none",
                               !.productos = <<>>, !.total = 0],
                     prods, Append(os, NewOrder(c.newId, c.productos, c.total)), ps)
       [] c.pc = "find" ->
            IF env.busy THEN same(Finish(c, Ret(c.op, FALSE, Rejected)))
            ELSE same(Finish(c, Ret(c.op, TRUE, "")))
       [] c.pc = "rollback" -> same(Finish(c, c.ret))
       [] OTHER -> same(c)

(* ordersService.updateOrderStatus *)
StatusStep(c, prods, os, ps, env) ==
  LET same(c2) == Out(c2, prods, os, ps)
      orderIndex == FindIndex(os, c.orderId)
  IN CASE c.pc = "find" ->
            IF env.busy
            THEN same(Finish(c, Ret(c.op, FALSE, "Error al actualizar estado de orden")))
            ELSE IF orderIndex = 0
            THEN same(Finish(c, Ret(c.op, FALSE, "Orden no encontrada")))
            ELSE IF c.status \notin ORDER_STATUSES
            THEN same(Finish(c, Ret(c.op, FALSE, "Estado no valido")))
            ELSE same([c EXCEPT !.pc = "save", !.order = os[orderIndex]])
       [] c.pc = "save" ->
            IF env.busy
            THEN same(Finish(c, Ret(c.op, FALSE, "Error al actualizar estado de orden")))
            ELSE Out(Finish(c, Ret(c.op, TRUE, "")), prods, SaveOrder(os, c), ps)
       [] OTHER -> same(c)

(* ordersService.updatePaymentStatus *)
PayStatusStep(c, prods, os, ps, env) ==
  LET same(c2) == Out(c2, prods, os, ps)
      orderIndex == FindIndex(os, c.orderId)
  IN CASE c.pc = "find" ->
            IF env.busy
            THEN same(Finish(c, Ret(c.op, FALSE, "Error al actualizar estado de pago")))
            ELSE IF orderIndex = 0
            THEN same(Finish(c, Ret(c.op, FALSE, "Orden no encontrada")))
            ELSE IF c.status \notin PAYMENT_STATUSES
            THEN same(Finish(c, Ret(c.op, FALSE, "Estado de pago no valido")))
            ELSE same([c EXCEPT !.pc = "save", !.order = os[orderIndex]])
       [] c.pc = "save" ->
            IF env.busy
            THEN same(Finish(c, Ret(c.op, FALSE, "Error al actualizar estado de pago")))
            ELSE Out(Finish(c, Ret(c.op, TRUE, "")), prods, SaveOrder(os, c), ps)
       [] OTHER -> same(c)

IssueRelease(c, prods, os, ps, j) ==
  LET item == c.productos[j]
      stockResult == UpdateStock(prods, item.producto_id, item.cantidad)
  IN Out([c EXCEPT !.pc = "release", !.i = j,
                   !.sr = [success |-> stockResult.success,
                           message |-> IF stockResult.success THEN ""
                                       ELSE stockResult.message]],
         stockResult.products, os, ps)

(* ordersService.cancelOrder: the loop stops at the first failed release,   *)
(* rolls the transaction back and returns the failure; the products file    *)
(* keeps the earlier releases                                               *)
CancelStep(c, prods, os, ps, env) ==
  LET same(c2) == Out(c2, prods, os, ps)
      orderIndex == FindIndex(os, c.orderId)
  IN CASE c.pc = "tx" -> same([c EXCEPT !.pc = "find"])
       [] c.pc = "find" ->
            LET c1 == [c EXCEPT !.lock = "shared"]
            IN IF env.busy
               THEN same(IssueRollback(c, "Error al cancelar orden", 0))
               ELSE IF orderIndex = 0
               THEN same(IssueRollback(c1, "Orden no encontrada", 0))
               ELSE IF NotCancellable(os[orderIndex].estadoPedido)
               THEN same(IssueRollback(c1, "No se puede cancelar una orden en estado", 0))
               ELSE LET c2 == [c1 EXCEPT !.order = os[orderIndex],
                                         !.productos = os[orderIndex].productos]
                    IN IF Len(c2.productos) = 0 THEN same([c2 EXCEPT !.pc = "save"])
                       ELSE IssueRelease(c2, prods, os, ps, 1)
       [] c.pc = "release" ->
            IF ~c.sr.success THEN same(IssueRollback(c, c.sr.message, c.i))
            ELSE IF c.i < Len(c.productos)
            THEN IssueRelease(c, prods, os, ps, c.i + 1)
            ELSE same([c EXCEPT !.pc = "save", !.i = 0, !.sr = NoResult,
                                !.productos = <<>>])
       [] c.pc = "save" ->
            IF env.busy \/ ~env.saveOk
            THEN same(IssueRollback(c, "Error al cancelar orden", 0))
            ELSE same([c EXCEPT !.pc = "commit",
                                !.lock = IF Dirty(c) THEN "reserved" ELSE @])
       [] c.pc = "commit" ->
            IF env.busy THEN same(Finish(c, Ret(c.op, FALSE, Rejected)))
            ELSE Out(Finish(c, Ret(c.op, TRUE, "Orden cancelada correctamente")),
                     prods, SaveOrder(os, c), ps)
       [] c.pc = "rollback" -> same(Finish(c, c.ret))
       [] OTHER -> same(c)

(* The PATCH /api/orders/:id/payment-status sent by ordersClient and served *)
(* by updatePaymentStatus of the orders service; the caller does not look   *)
(* at its result and goes on to the commit                                  *)
IssuePatch(c, orderId, paymentStatus) ==
  [c EXCEPT !.pc = "update", !.orderId = orderId, !.status = paymentStatus,
            !.order = NoOrder]

PatchStep(c, prods, os, ps, env) ==
  LET same(c2) == Out(c2, prods, os, ps)
      orderIndex == FindIndex(os, c.orderId)
      on == [c EXCEPT !.pc = "commit", !.order = NoOrder, !.served = "none"]
  IN CASE c.pc = "update" ->
            IF \/ env.busy \/ ~env.updateOk
               \/ orderIndex = 0 \/ c.status \notin PAYMENT_STATUSES
            THEN same(on)
            ELSE same([c EXCEPT !.pc = "updateSave", !.order = os[orderIndex]])
       [] c.pc = "updateSave" ->
            IF env.busy THEN same(on)
            ELSE Out(on, prods, SaveOrder(os, c), ps)
       [] OTHER -> same(c)

(* paymentsService.processPayment.  A COMPLETED Payment row of the order    *)
(* decides "already paid".  ordersClient.getOrderById always returns an     *)
(* object, so a missing order reaches the processor as undefined and the    *)
(* TypeError it raises is caught as "Error al procesar pago".  When         *)
(* Payment.create throws, the catch block rolls back and nothing was        *)
(* written.                                                                 *)
PayStep(c, prods, os, ps, env) ==
  LET same(c2) == Out(c2, prods, os, ps)
      orderIndex == FindIndex(os, c.orderId)
  IN CASE c.pc = "tx" ->
            IF c.gateway \notin PAYMENT_GATEWAYS
            THEN same(IssueRollback(c, "Pasarela de pago no valida", 0))
            ELSE same([c EXCEPT !.pc = "getOrder"])
       [] c.pc = "getOrder" ->
            same([c EXCEPT !.pc = "find",
                           !.order = IF env.busy \/ orderIndex = 0 THEN NoOrder
                                     ELSE os[orderIndex]])
       [] c.pc = "find" ->
            LET c1 == [c EXCEPT !.lock = "shared"]
            IN IF env.busy
               THEN same(IssueRollback(c, "Error al procesar pago", 0))
               ELSE IF \E i \in 1..Len(ps) :
                    ps[i].pedido_id = c.orderId /\ ps[i].estado = "COMPLETED"
               THEN same(IssueRollback(c1, "La orden ya ha sido pagada", 0))
               ELSE IF c.order = NoOrder
               THEN same(IssueRollback(c1, "Error al procesar pago", 0))
               ELSE IF ~env.charged
               THEN same(IssueRollback(c1, "Error al procesar el pago", 0))
               ELSE same([c1 EXCEPT !.pc = "create"])
       [] c.pc = "create" ->
            IF env.busy \/ ~env.saveOk
            THEN same(IssueRollback(c, "Error al procesar pago", 0))
            ELSE same(IssuePatch([c EXCEPT
                                    !.lock = "reserved",
                                    !.row = NewPayment(SqlNextPaymentId(ps), c.orderId, c.order.total,
                                                       c.gateway)],
                                 c.orderId, "COMPLETED"))
       [] c.pc \in {"update", "updateSave"} -> PatchStep(c, prods, os, ps, env)
       [] c.pc = "commit" ->
            IF env.busy THEN same(Finish(c, Ret(c.op, FALSE, Rejected)))
            ELSE Out(Finish(c, Ret(c.op, TRUE, "Pago procesado correctamente")),
                     prods, os,
                     Append(ps, c.row))
       [] c.pc = "rollback" -> same(Finish(c, c.ret))
       [] OTHER -> same(c)

(* paymentsService.cancelPayment *)
VoidStep(c, prods, os, ps, env) ==
  LET same(c2) == Out(c2, prods, os, ps)
      paymentIndex == FindPayment(ps, c.paymentId)
  IN CASE c.pc = "tx" -> same([c EXCEPT !.pc = "find"])
       [] c.pc = "find" ->
            LET c1 == [c EXCEPT !.lock = "shared"]
            IN IF env.busy
               THEN same(IssueRollback(c, "Error al cancelar pago", 0))
               ELSE IF paymentIndex = 0
               THEN same(IssueRollback(c1, "Pago no encontrado", 0))
               ELSE IF ps[paymentIndex].estado # "PENDING"
               THEN same(IssueRollback(c1, "No se puede cancelar un pago en estado", 0))
               ELSE same([c1 EXCEPT !.pc = "save", !.row = ps[paymentIndex]])
       [] c.pc = "save" ->
            IF env.busy \/ ~env.saveOk
            THEN same(IssueRollback(c, "Error al cancelar pago", 0))
            ELSE same(IssuePatch([c EXCEPT !.lock = "reserved"],
                                 c.row.pedido_id, "CANCELLED"))
       [] c.pc \in {"update", "updateSave"} -> PatchStep(c, prods, os, ps, env)
       [] c.pc = "commit" ->
            IF env.busy THEN same(Finish(c, Ret(c.op, FALSE, Rejected)))
            ELSE Out(Finish(c, Ret(c.op, TRUE, "Pago cancelado correctamente")),
                     prods, os,
                     [ps EXCEPT ![paymentIndex].estado = "CANCELLED"])
       [] c.pc = "rollback" -> same(Finish(c, c.ret))
       [] OTHER -> same(c)

(* paymentsService.processRefund *)
RefundStep(c, prods, os, ps, env) ==
  LET same(c2) == Out(c2, prods, os, ps)
      paymentIndex == FindPayment(ps, c.paymentId)
  IN CASE c.pc = "tx" -> same([c EXCEPT !.pc = "find"])
       [] c.pc = "find" ->
            LET c1 == [c EXCEPT !.lock = "shared"]
            IN IF env.busy
               THEN same(IssueRollback(c, "Error al procesar reembolso", 0))
               ELSE IF paymentIndex = 0
               THEN same(IssueRollback(c1, "Pago no encontrado", 0))
               ELSE IF ps[paymentIndex].estado # "COMPLETED"
               THEN same(IssueRollback(c1, "Solo se pueden reembolsar pagos completados", 0))
               ELSE IF RefundAmount(c.amount, ps[paymentIndex].monto)
                         > ps[paymentIndex].monto
               THEN same(IssueRollback(c1, "El monto a reembolsar no puede exceder el monto del pago", 0))
               ELSE same([c1 EXCEPT !.pc = "save", !.row = ps[paymentIndex]])
       [] c.pc = "save" ->
            IF env.busy \/ ~env.saveOk
            THEN same(IssueRollback(c, "Error al procesar reembolso", 0))
            ELSE same(IssuePatch([c EXCEPT !.lock = "reserved"],
                                 c.row.pedido_id, "REFUNDED"))
       [] c.pc \in {"update", "updateSave"} -> PatchStep(c, prods, os, ps, env)
       [] c.pc = "commit" ->
            IF env.busy THEN same(Finish(c, Ret(c.op, FALSE, Rejected)))
            ELSE Out(Finish(c, Ret(c.op, TRUE, "Reembolso procesado correctamente")),
                     prods, os,
                     [ps EXCEPT ![paymentIndex].estado = "REFUNDED"])
       [] c.pc = "rollback" -> same(Finish(c, c.ret))
       [] OTHER -> same(c)

(* One await of the call resolves *)
Step(c, prods, os, ps, env) ==
  CASE c.op = "createOrder" -> CreateStep(c, prods, os, ps, env)
    [] c.op = "updateOrderStatus" -> StatusStep(c, prods, os, ps, env)
    [] c.op = "updatePaymentStatus" -> PayStatusStep(c, prods, os, ps, env)
    [] c.op = "cancelOrder" -> CancelStep(c, prods, os, ps, env)
    [] c.op = "processPayment" -> PayStep(c, prods, os, ps, env)
    [] c.op = "cancelPayment" -> VoidStep(c, prods, os, ps, env)
    [] c.op = "processRefund" -> RefundStep(c, prods, os, ps, env)
    [] OTHER -> Out(c, prods, os, ps)

(* The call from its first await to its return, with no other request in    *)
(* flight: nothing holds up its awaits                                      *)
RECURSIVE Run(_, _, _, _, _)
Run(c, prods, os, ps, env) ==
  IF c.pc \in {"idle", "done"} THEN Out(c, prods, os, ps)
  ELSE LET n == Step(c, prods, os, ps, env)
       IN Run(n.c, n.products, n.orders, n.payments, env)

SqlCreateOrder(prods, os, items) ==
  LET r == Run(NewCall(items), prods, os, <<>>, Calm)
  IN [products |-> r.products, orders |-> r.orders, ret |-> r.c.ret]

SqlUpdateOrderStatus(os, orderId, status) ==
  LET r == Run(StatusCall(orderId, status), <<>>, os, <<>>, Calm)
  IN [orders |-> r.orders, ret |-> r.c.ret]

SqlUpdatePaymentStatus(os, orderId, paymentStatus) ==
  LET r == Run(PayStatusCall(orderId, paymentStatus), <<>>, os, <<>>, Calm)
  IN [orders |-> r.orders, ret |-> r.c.ret]

SqlCancelOrder(prods, os, orderId, saveOk) ==
  LET r == Run(CancelCall(orderId), prods, os, <<>>, Env(FALSE, TRUE, TRUE, saveOk))
  IN [products |-> r.products, orders |-> r.orders, ret |-> r.c.ret]

SqlProcessPaymentF(os, ps, orderId, gateway, charged, updateOk, saveOk) ==
  LET r == Run(PayCall(orderId, gateway), <<>>, os, ps,
               Env(FALSE, charged, updateOk, saveOk))
  IN [orders |-> r.orders, payments |-> r.payments, ret |-> r.c.ret]

SqlProcessPayment(os, ps, orderId, gateway, charged) ==
  SqlProcessPaymentF(os, ps, orderId, gateway, charged, TRUE, TRUE)

SqlCancelPayment(os, ps, paymentId) ==
  LET r == Run(VoidCall(paymentId), <<>>, os, ps, Calm)
  IN [orders |-> r.orders, payments |-> r.payments, ret |-> r.c.ret]

(* updateOk: the PATCH of the order's payment status gets through (the    *)
(* handler does not look at what ordersClient.updatePaymentStatus          *)
(* returns); saveOk: payment.save resolves                                  *)
SqlProcessRefundF(os, ps, paymentId, amount, updateOk, saveOk) ==
  LET r == Run(RefundCall(paymentId, amount), <<>>, os, ps,
               Env(FALSE, TRUE, updateOk, saveOk))
  IN [orders |-> r.orders, payments |-> r.payments, ret |-> r.c.ret]

SqlProcessRefund(os, ps, paymentId, amount) ==
  SqlProcessRefundF(os, ps, paymentId, amount, TRUE, TRUE)

-----------------------------------------------------------------------------
(* The requests.  In the monolith a handler has no await that yields, so    *)
(* the action named after it is the whole call.  In the orders and payments *)
(* services the action named after a handler receives the request, and the  *)
(* call then advances one await at a time (resume); other requests are      *)
(* served between its awaits.  The ...Call operators give what a call does  *)
(* from the current state when nothing else is served before it returns:    *)
(* the files and tables it leaves and the value it returns (ret).           *)

(* The largest stock of the products file in the two-call races *)
MaxRaceQty == 3

StockCap ==
  IF scope = "e2e" THEN Scenario.stock
  ELSE IF scope = "race" THEN MaxRaceQty
  ELSE MaxStock

(* In the two-call races each call may store its order or its payment *)
OrderCap == IF scope = "race" THEN Cardinality(Procs) ELSE MaxOrders

PaymentCap ==
  IF scope = "settle" THEN MaxPayments + 1
  ELSE IF scope = "race" THEN Cardinality(Procs)
  ELSE MaxPayments

Bounded(prods, os, ps) ==
  /\ \A i \in 1..Len(prods) : prods[i].stock_disponible <= StockCap
  /\ Len(prods) <= MaxProducts
  /\ Len(os) <= OrderCap
  /\ Len(ps) <= PaymentCap

OrderIdInputs == OrderIds \cup {0}
PaymentIdInputs == PaymentIds \cup {0}
MaxTotal == 2 * MaxQty * MaxItems
AmountInputs == {0, 1, MaxTotal + 1}
SaveOutcomes == IF scope = "fault" THEN BOOLEAN ELSE {TRUE}

(* The requests the services work on at a time *)
Slots == IF scope \in {"race", "async"} THEN Procs ELSE {1}

FreeSlot ==
  CHOOSE p \in Slots : calls[p].pc = "idle" /\ \A q \in Slots : calls[q].pc = "idle" => p <= q

(* The service receives a request: the call is at its first await *)
Accept(c) ==
  /\ \E p \in Slots : calls[p].pc = "idle"
  /\ calls' = [calls EXCEPT ![FreeSlot] = c]
  /\ UNCHANGED <<variant, scope, products, orders, payments, notifications>>

InFlight(op) == Cardinality({p \in Procs : calls[p].op = op /\ calls[p].pc # "done"})

updateStock(productId, quantity) ==
  LET r == UpdateStock(products, productId, quantity)
  IN /\ Bounded(r.products, orders, payments)
     /\ products' = r.products
     /\ UNCHANGED <<variant, scope, orders, payments, notifications, calls>>

updateProduct(productId, patch) ==
  LET r == UpdateProduct(products, productId, patch)
  IN /\ products' = r.products
     /\ UNCHANGED <<variant, scope, orders, payments, notifications, calls>>

createProduct(productData) ==
  LET r == CreateProduct(products, productData)
  IN /\ Bounded(r.products, orders, payments)
     /\ products' = r.products
     /\ UNCHANGED <<variant, scope, orders, payments, notifications, calls>>

deleteProduct(productId) ==
  LET r == DeleteProduct(products, productId)
  IN /\ products' = r.products
     /\ UNCHANGED <<variant, scope, orders, payments, notifications, calls>>

CreateOrderIn(prods, os, items) ==
  IF variant = "json" THEN JsonCreateOrder(prods, os, items)
  ELSE SqlCreateOrder(prods, os, items)

CreateOrderCall(items) == CreateOrderIn(products, orders, items)

(* The monolith stores whatever the body carries *)
createOrder(items, complete) ==
  IF variant = "json"
  THEN LET r == JsonCreateOrder(products, orders, items)
       IN /\ Len(orders) < MaxOrders
          /\ Bounded(r.products, r.orders, payments)
          /\ products' = r.products
          /\ orders' = r.orders
          /\ UNCHANGED <<variant, scope, payments, notifications, calls>>
  ELSE /\ Len(orders) + InFlight("createOrder") < MaxOrders
       /\ Accept(BodyCall(items, complete))

UpdateOrderStatusCall(orderId, status) ==
  IF variant = "json" THEN JsonUpdateOrderStatus(orders, orderId, status)
  ELSE SqlUpdateOrderStatus(orders, orderId, status)

updateOrderStatus(orderId, status) ==
  IF variant = "json"
  THEN LET r == JsonUpdateOrderStatus(orders, orderId, status)
       IN /\ orders' = r.orders
          /\ UNCHANGED <<variant, scope, products, payments, notifications, calls>>
  ELSE Accept(StatusCall(orderId, status))

UpdatePaymentStatusCall(orderId, paymentStatus) ==
  IF variant = "json" THEN JsonUpdatePaymentStatus(orders, orderId, paymentStatus)
  ELSE SqlUpdatePaymentStatus(orders, orderId, paymentStatus)

updatePaymentStatus(orderId, paymentStatus) ==
  IF variant = "json"
  THEN LET r == JsonUpdatePaymentStatus(orders, orderId, paymentStatus)
       IN /\ orders' = r.orders
          /\ UNCHANGED <<variant, scope, products, payments, notifications, calls>>
  ELSE Accept(PayStatusCall(orderId, paymentStatus))

CancelOrderIn(prods, os, orderId, saveOk) ==
  IF variant = "json" THEN JsonCancelOrder(prods, os, orderId, saveOk)
  ELSE SqlCancelOrder(prods, os, orderId, saveOk)

CancelOrderCall(orderId, saveOk) == CancelOrderIn(products, orders, orderId, saveOk)

(* In the orders service the outcome of the write is drawn when its await   *)
(* resolves, not when the request arrives                                   *)
cancelOrder(orderId, saveOk) ==
  IF variant = "json"
  THEN LET r == JsonCancelOrder(products, orders, orderId, saveOk)
       IN /\ Bounded(r.products, r.orders, payments)
          /\ products' = r.products
          /\ orders' = r.orders
          /\ UNCHANGED <<variant, scope, payments, notifications, calls>>
  ELSE /\ saveOk
       /\ Accept(CancelCall(orderId))

ProcessPaymentIn(os, ps, orderId, gateway, charged, updateOk, saveOk) ==
  IF variant = "json"
  THEN JsonProcessPaymentF(os, ps, orderId, gateway, charged, updateOk, saveOk)
  ELSE SqlProcessPaymentF(os, ps, orderId, gateway, charged, updateOk, saveOk)

ProcessPaymentFaultCall(orderId, gateway, charged, updateOk, saveOk) ==
  ProcessPaymentIn(orders, payments, orderId, gateway, charged, updateOk, saveOk)

ProcessPaymentCall(orderId, gateway, charged) ==
  IF variant = "json" THEN JsonProcessPayment(orders, payments, orderId, gateway, charged)
  ELSE SqlProcessPayment(orders, payments, orderId, gateway, charged)

(* The notifications file after processPayment: neither implementation    *)
(* calls notificationsService, so it is the file as it was.                 *)
NotificationsAfterPayment(ns, orderId, gateway, charged) == ns

(* In the payments service the answers of the gateway, of the PATCH and of  *)
(* the write are drawn when their awaits resolve                            *)
processPayment(orderId, gateway, charged, updateOk, saveOk) ==
  IF variant = "json"
  THEN LET r == IF updateOk /\ saveOk
                THEN JsonProcessPayment(orders, payments, orderId, gateway, charged)
                ELSE JsonProcessPaymentF(orders, payments, orderId, gateway, charged,
                                         updateOk, saveOk)
       IN /\ Bounded(products, r.orders, r.payments)
          /\ orders' = r.orders
          /\ payments' = r.payments
          /\ notifications' = NotificationsAfterPayment(notifications, orderId, gateway, charged)
          /\ UNCHANGED <<variant, scope, products, calls>>
  ELSE /\ charged /\ updateOk /\ saveOk
       /\ Len(payments) + InFlight("processPayment") < PaymentCap
       /\ Accept(PayCall(orderId, gateway))

CancelPaymentCall(paymentId) ==
  IF variant = "json" THEN JsonCancelPayment(orders, payments, paymentId)
  ELSE SqlCancelPayment(orders, payments, paymentId)

cancelPayment(paymentId) ==
  IF variant = "json"
  THEN LET r == JsonCancelPayment(orders, payments, paymentId)
       IN /\ orders' = r.orders
          /\ payments' = r.payments
          /\ UNCHANGED <<variant, scope, products, notifications, calls>>
  ELSE Accept(VoidCall(paymentId))

ProcessRefundIn(os, ps, paymentId, amount) ==
  IF variant = "json" THEN JsonProcessRefund(os, ps, paymentId, amount)
  ELSE SqlProcessRefund(os, ps, paymentId, amount)

ProcessRefundCall(paymentId, amount) ==
  IF variant = "json" THEN JsonProcessRefund(orders, payments, paymentId, amount)
  ELSE SqlProcessRefund(orders, payments, paymentId, amount)

ProcessRefundFaultCall(paymentId, amount, updateOk, saveOk) ==
  IF variant = "json"
  THEN JsonProcessRefundF(orders, payments, paymentId, amount, updateOk, saveOk)
  ELSE SqlProcessRefundF(orders, payments, paymentId, amount, updateOk, saveOk)

processRefund(paymentId, amount) ==
  IF variant = "json"
  THEN \E updateOk \in SaveOutcomes, saveOk \in SaveOutcomes :
         LET r == JsonProcessRefundF(orders, payments, paymentId, amount,
                                     updateOk, saveOk)
         IN /\ orders' = r.orders
            /\ payments' = r.payments
            /\ UNCHANGED <<variant, scope, products, notifications, calls>>
  ELSE Accept(RefundCall(paymentId, amount))

(* What the gateway, the PATCH and the write can answer at the await the    *)
(* call is suspended on.  In the scope "race" the gateway accepts.          *)
Charges(c) ==
  IF c.op = "processPayment" /\ c.pc = "find" /\ scope # "race" THEN BOOLEAN
  ELSE {TRUE}

Patches(c) == IF c.pc = "update" THEN SaveOutcomes ELSE {TRUE}

Saves(c) ==
  IF \/ c.op = "createOrder" /\ c.pc \in {"orderCreate", "itemCreate"}
     \/ c.op = "processPayment" /\ c.pc = "create"
     \/ c.op \in {"cancelOrder", "cancelPayment", "processRefund"} /\ c.pc = "save"
  THEN SaveOutcomes ELSE {TRUE}

(* The statement of the await the call in slot p is suspended on runs.  A   *)
(* write that only readers hold up takes its place in front of the file and *)
(* the call stays at the await.  Otherwise the await resolves and the       *)
(* handler runs to its next await or to its return: an await that another   *)
(* connection's lock holds up is rejected with SQLITE_BUSY; the call whose  *)
(* await goes through after a wait is the call that takes this step once    *)
(* the other connection has let go.  The monolith serves a received         *)
(* createOrder in one step.                                                 *)
resume(p, charged, updateOk, saveOk) ==
  LET c == calls[p]
      others == {calls[q] : q \in Procs \ {p}}
      n == IF variant = "json"
           THEN LET r == JsonCreateOrder(products, orders, c.items)
                IN Out(Finish(c, r.ret), r.products, r.orders, payments)
           ELSE IF Queues(c, others)
           THEN Out(Queue(c), products, orders, payments)
           ELSE Step(c, products, orders, payments,
                     Env(Blocked(c, others), charged, updateOk, saveOk))
  IN /\ c.pc \notin {"idle", "done"}
     /\ Bounded(n.products, n.orders, n.payments)
     /\ products' = n.products
     /\ orders' = n.orders
     /\ payments' = n.payments
     /\ calls' = [calls EXCEPT ![p] = IF n.c.pc = "done" /\ scope # "race"
                                      THEN IdleCall ELSE n.c]
     /\ UNCHANGED <<variant, scope, notifications>>

Resume ==
  \E p \in Procs :
    \E charged \in Charges(calls[p]), updateOk \in Patches(calls[p]),
       saveOk \in Saves(calls[p]) :
      resume(p, charged, updateOk, saveOk)

-----------------------------------------------------------------------------
(* Sequential specification: one request at a time *)

(* products.json with one active record per identifier of PIDs, in the     *)
(* order of the identifiers, every stock drawn from stocks                 *)
Catalogs(stocks, precios) ==
  {[i \in 1..Cardinality(PIDs) |->
      [id |-> i, stock_disponible |-> st[i], precio |-> pr[i], activo |-> TRUE]] :
     st \in [PIDs -> stocks], pr \in [PIDs -> precios]}

ProductStates == Catalogs(0..MaxStock, PriceInputs)

(* The services are driven with fewer requests than the monolith: each of   *)
(* their requests adds the states of its awaits.  Drive(all, few) is the    *)
(* set a request's input is drawn from.                                     *)
Drive(all, few) == IF variant = "json" THEN all ELSE few

InitWith(sc) ==
  /\ variant \in Variants
  /\ scope = sc
  /\ products \in Drive(ProductStates, Catalogs({MaxStock}, PriceInputs))
  /\ orders = <<>>
  /\ payments = <<>>
  /\ notifications = <<>>
  /\ calls = [p \in Procs |-> IdleCall]

Init == InitWith("stock")

Next ==
  \/ \E productId \in Drive(PIDs \cup {UnknownPID}, {MaxOf(PIDs)}),
        quantity \in Drive(StockDeltas, {-MaxQty, MaxQty}) :
       updateStock(productId, quantity)
  \/ \E productId \in Drive(PIDs \cup {UnknownPID}, {MaxOf(PIDs)}),
        patch \in Drive(ProductPatches, PricePatches) :
       updateProduct(productId, patch)
  \/ \E items \in Drive(ItemLists, OneItemLists), complete \in Drive({TRUE}, BOOLEAN) :
       createOrder(items, complete)
  \/ \E orderId \in Drive(OrderIdInputs, OrderIds),
        status \in Drive(StatusInputs, ORDER_STATUSES) :
       updateOrderStatus(orderId, status)
  \/ \E orderId \in Drive(OrderIdInputs, OrderIds),
        paymentStatus \in Drive(PaymentStatusInputs, PAYMENT_STATUSES) :
       updatePaymentStatus(orderId, paymentStatus)
  \/ \E orderId \in Drive(OrderIdInputs, OrderIds), saveOk \in SaveOutcomes :
       cancelOrder(orderId, saveOk)
  \/ \E orderId \in Drive(OrderIdInputs, OrderIds),
        gateway \in Drive(GatewayInputs, PAYMENT_GATEWAYS \cap GatewayInputs),
        charged \in BOOLEAN, updateOk \in SaveOutcomes, saveOk \in SaveOutcomes :
       processPayment(orderId, gateway, charged, updateOk, saveOk)
  \/ \E paymentId \in Drive(PaymentIdInputs, PaymentIds) : cancelPayment(paymentId)
  \/ \E paymentId \in Drive(PaymentIdInputs, PaymentIds),
        amount \in Drive(AmountInputs, {0}) :
       processRefund(paymentId, amount)
  \/ Resume

Spec == Init /\ [][Next]_vars

(* The same requests when a write of the orders can fail *)
InitFault == InitWith("fault")

SpecFault == InitFault /\ [][Next]_vars

(* The same requests when the catalog prices change *)
InitPrice == InitWith("price")

SpecPrice == InitPrice /\ [][Next]_vars

(* The catalog administrator's requests of the monolith (POST, PUT and      *)
(* DELETE /api/products) among orders that are placed and cancelled.  The   *)
(* product routes exist in the monolith only.                               *)
InitCatalog ==
  /\ variant = "json"
  /\ scope = "catalog"
  /\ products \in Catalogs(StockInputs, PriceInputs)
  /\ orders = <<>>
  /\ payments = <<>>
  /\ notifications = <<>>
  /\ calls = [p \in Procs |-> IdleCall]

NextCatalog ==
  \/ \E productId \in IdInputs, quantity \in StockDeltas :
       updateStock(productId, quantity)
  \/ \E productId \in IdInputs, patch \in ProductPatches :
       updateProduct(productId, patch)
  \/ \E productData \in ProductData : createProduct(productData)
  \/ \E productId \in IdInputs : deleteProduct(productId)
  \/ \E items \in ItemLists : createOrder(items, TRUE)
  \/ \E orderId \in OrderIdInputs : cancelOrder(orderId, TRUE)

SpecCatalog == InitCatalog /\ [][NextCatalog]_vars

(* The end-to-end scenario: orders are placed, paid and cancelled against   *)
(* products that start with the scenario's stock, or one unit less.         *)
InitE2E ==
  /\ variant \in Variants
  /\ scope = "e2e"
  /\ products \in Catalogs((Scenario.stock - 1)..Scenario.stock, {Scenario.precio})
  /\ orders = <<>>
  /\ payments = <<>>
  /\ notifications = <<>>
  /\ calls = [p \in Procs |-> IdleCall]

NextE2E ==
  \/ \E items \in Drive(ItemLists, OneItemLists) : createOrder(items, TRUE)
  \/ \E orderId \in Drive(OrderIdInputs, OrderIds),
        gateway \in Drive(GatewayInputs, PAYMENT_GATEWAYS \cap GatewayInputs),
        charged \in BOOLEAN :
       processPayment(orderId, gateway, charged, TRUE, TRUE)
  \/ \E orderId \in Drive(OrderIdInputs, OrderIds) : cancelOrder(orderId, TRUE)
  \/ Resume

SpecE2E == InitE2E /\ [][NextE2E]_vars

-----------------------------------------------------------------------------
(* Two createOrder requests in flight at once.  Both ask for the whole stock *)
(* of the same product.  In the monolith createOrder has no await and runs   *)
(* in one step; in the orders service the two calls interleave at every      *)
(* await.                                                                    *)

RaceItems(productId, quantity) == <<[producto_id |-> productId, cantidad |-> quantity]>>

InitRace ==
  /\ variant \in Variants
  /\ scope = "race"
  /\ orders = <<>>
  /\ payments = <<>>
  /\ notifications = <<>>
  /\ \E productId \in PIDs, quantity \in 1..MaxRaceQty :
       /\ products \in {ps \in Catalogs(0..MaxRaceQty, PriceInputs) :
                          StockOf(ps, productId) = quantity}
       /\ calls = [p \in Procs |-> NewCall(RaceItems(productId, quantity))]

NextRace == Resume

SpecRace == InitRace /\ [][NextRace]_vars

-----------------------------------------------------------------------------
(* Properties of createOrder and updateStock *)

(* C1: createOrder is all-or-nothing with respect to stock.  When a call     *)
(* with N line items fails at item k, the stock of every product named by    *)
(* items 1..k-1 equals its value before the call and no order is persisted.  *)
(* Stated for the deployment chosen by `variant`, so for both createOrder    *)
(* implementations, and for line items of quantity >= 1.                     *)
PositiveItemLists ==
  {items \in ItemLists : \A j \in 1..Len(items) : items[j].cantidad >= 1}

C1_CreateOrderAllOrNothing ==
  \A items \in PositiveItemLists :
    LET r == CreateOrderCall(items)
    IN (~r.ret.success /\ r.ret.k # 0) =>
         /\ \A j \in 1..(r.ret.k - 1) :
              items[j].producto_id \in ProductIds(products) =>
                StockOf(r.products, items[j].producto_id)
                  = StockOf(products, items[j].producto_id)
         /\ r.orders = orders

InsufficientMessages == {"Stock insuficiente", "Stock insuficiente para el producto"}

RaceDone == \A p \in Procs : calls[p].pc = "done"

RaceProduct == calls[1].items[1].producto_id

RaceOneSuccess ==
  /\ ~(\A p \in Procs : calls[p].pc = "done" /\ calls[p].ret.success)
  /\ Len(orders) <= 1
  /\ RaceDone =>
       /\ \E p \in Procs :
            /\ calls[p].ret.success
            /\ \A q \in Procs \ {p} :
                 /\ ~calls[q].ret.success
                 /\ calls[q].ret.message
                      \in InsufficientMessages \cup {"Error al crear orden"}
       /\ StockOf(products, RaceProduct) = 0
       /\ Len(orders) = 1

(* Both requests passed the stock validation before either reserved, and    *)
(* the loser's INSERT was rejected with SQLITE_BUSY.                         *)
RaceRefused ==
  /\ RaceDone
  /\ \E q \in Procs : ~calls[q].ret.success /\ calls[q].ret.message = "Error al crear orden"
  /\ \E p \in Procs : calls[p].ret.success

(* Both requests passed the stock validation before either reserved; the    *)
(* loser's INSERT went through after the winner's commit and the loser was  *)
(* then refused by updateStock.                                             *)
RaceWaited ==
  /\ RaceDone
  /\ variant = "sqlite"
  /\ \E q \in Procs : ~calls[q].ret.success /\ calls[q].ret.message = "Stock insuficiente"
  /\ \E p \in Procs : calls[p].ret.success

(* C3: in every reachable state every product's available stock is >= 0.    *)
C3_StockNonNegative ==
  \A i \in 1..Len(products) : products[i].stock_disponible >= 0

ReserveInputs == 1..(MaxStock + 1)

(* C4: updateStock(productId, -q) with q > 0 succeeds and leaves exactly     *)
(* old stock - q when q <= stock; fails with insufficient stock and changes  *)
(* nothing when q > stock; fails with not-found and changes nothing when the *)
(* product is unknown.                                                       *)
C4_ReserveContract ==
  \A p \in PIDs \cup {UnknownPID}, q \in ReserveInputs :
    LET r == UpdateStock(products, p, -q)
    IN IF p \notin ProductIds(products)
       THEN /\ ~r.success
            /\ r.message = "Producto no encontrado"
            /\ r.products = products
       ELSE IF q <= StockOf(products, p)
       THEN /\ r.success
            /\ StockOf(r.products, p) = StockOf(products, p) - q
            /\ Len(r.products) = Len(products)
            /\ \A i \in 1..Len(products) \ {FindProduct(products, p)} :
                 r.products[i] = products[i]
            /\ PriceOf(r.products, p) = PriceOf(products, p)
       ELSE /\ ~r.success
            /\ r.message = "Stock insuficiente"
            /\ r.products = products

(* A state where one reservation takes the whole stock of a product, one is  *)
(* refused for the other product, and one names an unknown product.          *)
C4_Witness ==
  \E p, o \in PIDs, q \in ReserveInputs :
    /\ p # o
    /\ StockOf(products, p) = q
    /\ UpdateStock(products, p, -q).success
    /\ StockOf(UpdateStock(products, p, -q).products, p) = 0
    /\ StockOf(products, o) < q
    /\ ~UpdateStock(products, o, -q).success
    /\ ~UpdateStock(products, UnknownPID, -q).success

-----------------------------------------------------------------------------
(* Properties of cancelOrder *)

RECURSIVE SumQty(_, _, _)
SumQty(productos, productId, i) ==
  IF i > Len(productos) THEN 0
  ELSE (IF productos[i].producto_id = productId THEN productos[i].cantidad ELSE 0)
       + SumQty(productos, productId, i + 1)

Cancellable(o) == o.estadoPedido \in {"PENDING", "PROCESSING"}

(* cancelOrder at the current state on the order at position i: it succeeds, *)
(* the order becomes CANCELLED and each stock rises by the order's quantity. *)
CancelRestores(i) ==
  LET r == CancelOrderCall(orders[i].numeroPedido, TRUE)
  IN /\ r.ret.success
     /\ r.orders[i].estadoPedido = "CANCELLED"
     /\ \A p \in ProductIds(products) :
          StockOf(r.products, p)
            = StockOf(products, p) + SumQty(orders[i].productos, p, 1)

(* createOrder followed by cancelOrder of the new order gives back the stock *)
RoundTrip(items) ==
  LET c == CreateOrderCall(items)
  IN c.ret.success =>
       LET id == c.orders[Len(c.orders)].numeroPedido
           r == CancelOrderIn(c.products, c.orders, id, TRUE)
       IN /\ r.ret.success
          /\ \A p \in ProductIds(products) :
               StockOf(r.products, p) = StockOf(products, p)

(* C5: cancelOrder on a PENDING or PROCESSING order succeeds, sets the       *)
(* fulfillment status to CANCELLED and raises each product's stock by        *)
(* exactly the order's quantity for it, so that createOrder followed by      *)
(* cancelOrder returns every stock to its value before createOrder.          *)
C5_CancelRestoresStock ==
  /\ \A i \in 1..Len(orders) : Cancellable(orders[i]) => CancelRestores(i)
  /\ \A items \in ItemLists : RoundTrip(items)

(* The same statement for orders and requests whose quantities are all >= 1 *)
C5_CancelRestoresPositive ==
  /\ \A i \in 1..Len(orders) :
       (/\ Cancellable(orders[i])
        /\ \A j \in 1..Len(orders[i].productos) : orders[i].productos[j].cantidad >= 1)
       => CancelRestores(i)
  /\ \A items \in PositiveItemLists : RoundTrip(items)

(* C6: cancelOrder on a SHIPPED or DELIVERED order fails and leaves the      *)
(* order's fulfillment status, its payment status and every product's stock  *)
(* unchanged, whether or not the orders can be written.                      *)
C6_ShippedNotCancellable ==
  \A i \in 1..Len(orders) :
    orders[i].estadoPedido \in {"SHIPPED", "DELIVERED"} =>
      \A saveOk \in BOOLEAN :
        LET r == CancelOrderCall(orders[i].numeroPedido, saveOk)
        IN /\ ~r.ret.success
           /\ r.orders[i].estadoPedido = orders[i].estadoPedido
           /\ r.orders[i].estadoPago = orders[i].estadoPago
           /\ r.orders = orders
           /\ r.products = products

(* A SHIPPED order holding a line item, whose cancellation is refused *)
C6_Witness ==
  \E i \in 1..Len(orders) :
    /\ orders[i].estadoPedido = "SHIPPED"
    /\ Len(orders[i].productos) > 0
    /\ ~CancelOrderCall(orders[i].numeroPedido, TRUE).ret.success
    /\ CancelOrderCall(orders[i].numeroPedido, TRUE).ret.message
         = "No se puede cancelar una orden en estado"

(* C7: cancelOrder is atomic under failure.  When a stock release fails or   *)
(* the write of the CANCELLED status fails, no product's stock has changed,  *)
(* the order's fulfillment status is unchanged and the call does not report  *)
(* success.                                                                  *)
C7_CancelAtomic ==
  \A i \in 1..Len(orders), saveOk \in BOOLEAN :
    ~NotCancellable(orders[i].estadoPedido) =>
      LET r == CancelOrderCall(orders[i].numeroPedido, saveOk)
      IN (r.ret.k # 0 \/ ~saveOk) =>
           /\ ~r.ret.success
           /\ r.products = products
           /\ r.orders[i].estadoPedido = orders[i].estadoPedido

(* The same statement when only the write of the status fails and every     *)
(* quantity of the order is >= 1                                             *)
C7_SaveFailureAtomic ==
  \A i \in 1..Len(orders) :
    (/\ ~NotCancellable(orders[i].estadoPedido)
     /\ \A j \in 1..Len(orders[i].productos) : orders[i].productos[j].cantidad >= 1
     /\ Len(orders[i].productos) > 0)
    => LET r == CancelOrderCall(orders[i].numeroPedido, FALSE)
       IN /\ ~r.ret.success
          /\ r.products = products
          /\ r.orders[i].estadoPedido = orders[i].estadoPedido

-----------------------------------------------------------------------------
(* Properties of the order's status and total *)

Rank(estadoPedido) ==
  CASE estadoPedido = "PENDING" -> 1
    [] estadoPedido = "PROCESSING" -> 2
    [] estadoPedido = "SHIPPED" -> 3
    [] estadoPedido = "DELIVERED" -> 4
    [] OTHER -> 0

AllowedTransition(from, to) ==
  \/ from = to
  \/ to = "CANCELLED" /\ from \notin {"SHIPPED", "DELIVERED"}
  \/ from # "CANCELLED" /\ to # "CANCELLED" /\ Rank(from) < Rank(to)

(* C8: every change of an order's fulfillment status moves forward in the    *)
(* order PENDING, PROCESSING, SHIPPED, DELIVERED, or moves to CANCELLED from *)
(* a status other than SHIPPED or DELIVERED; a CANCELLED order never leaves  *)
(* CANCELLED.                                                                *)
C8_StatusMonotonic ==
  [][\A i \in 1..Len(orders) :
       i <= Len(orders') =>
         AllowedTransition(orders[i].estadoPedido, orders'[i].estadoPedido)]_vars

RECURSIVE SumLines(_, _)
SumLines(productos, i) ==
  IF i > Len(productos) THEN 0
  ELSE productos[i].precio_unitario * productos[i].cantidad + SumLines(productos, i + 1)

(* The call of the orders service that is about to commit these line items *)
Committing(productos) ==
  \E p \in Procs :
    /\ calls[p].op = "createOrder"
    /\ calls[p].pc = "commit"
    /\ calls[p].productos = productos

(* C9: an order's total is the sum over its line items of the product's      *)
(* price at the moment of createOrder times the quantity, and no later step  *)
(* changes the total or a line item's captured unit price.  The monolith     *)
(* reads the prices in the step that stores the order; the orders service    *)
(* reads each price at its getProductById, keeps it in the line item and     *)
(* stores the line items at the commit.                                      *)
C9_TotalFrozen ==
  [][/\ \A i \in 1..Len(orders) :
          /\ i <= Len(orders')
          /\ orders'[i].total = orders[i].total
          /\ orders'[i].productos = orders[i].productos
     /\ \A i \in (Len(orders) + 1)..Len(orders') :
          /\ IF variant = "json"
             THEN \A j \in 1..Len(orders'[i].productos) :
                    orders'[i].productos[j].precio_unitario
                      = PriceOf(products, orders'[i].productos[j].producto_id)
             ELSE Committing(orders'[i].productos)
          /\ orders'[i].total = SumLines(orders'[i].productos, 1)
     /\ \A p \in Procs :
          /\ (calls'[p].pc = "getProduct" /\ calls'[p] # calls[p]
                /\ calls'[p].pr.success) =>
               calls'[p].pr.precio
                 = PriceOf(products, calls'[p].items[calls'[p].i].producto_id)
          /\ (calls[p].pc = "getProduct"
                /\ Len(calls'[p].productos) = Len(calls[p].productos) + 1) =>
               /\ calls'[p].productos[Len(calls'[p].productos)].precio_unitario
                    = calls[p].pr.precio
               /\ calls'[p].total = SumLines(calls'[p].productos, 1)]_vars

(* An order whose product has changed price since: the total still is the   *)
(* captured price times the quantity, not the current price times it.       *)
C9_Witness ==
  \E i \in 1..Len(orders) :
    /\ Len(orders[i].productos) > 0
    /\ \E j \in 1..Len(orders[i].productos) :
         orders[i].productos[j].precio_unitario
           # PriceOf(products, orders[i].productos[j].producto_id)
    /\ orders[i].total = SumLines(orders[i].productos, 1)
    /\ orders[i].estadoPedido = "CANCELLED"
    /\ orders[i].estadoPago = "REFUNDED"

-----------------------------------------------------------------------------
(* Properties of processPayment *)

(* C10: processPayment on an order whose payment status is COMPLETED fails   *)
(* with the already-paid result, creates no Payment record and changes no    *)
(* order.                                                                    *)
C10_AlreadyPaidRejected ==
  \A i \in 1..Len(orders) :
    orders[i].estadoPago = "COMPLETED" =>
      \A gateway \in GatewayInputs \cap PAYMENT_GATEWAYS, charged \in BOOLEAN :
        LET r == ProcessPaymentCall(orders[i].numeroPedido, gateway, charged)
        IN /\ ~r.ret.success
           /\ r.ret.message = "La orden ya ha sido pagada"
           /\ r.payments = payments
           /\ r.orders = orders


ValidGateways == GatewayInputs \cap PAYMENT_GATEWAYS

(* The gateway is asked to charge: the request passed every check before it *)
ChargeReached(orderId, gateway) == ProcessPaymentCall(orderId, gateway, TRUE).ret.success

(* C11: when the gateway declines the charge, processPayment returns the     *)
(* gateway's failure and mutates nothing: no Payment record is created and   *)
(* the order's payment status and fulfillment status are unchanged.          *)
C11_DeclineMutatesNothing ==
  \A orderId \in OrderIdInputs, gateway \in ValidGateways :
    LET r == ProcessPaymentCall(orderId, gateway, FALSE)
    IN /\ ~r.ret.success
       /\ r.payments = payments
       /\ r.orders = orders
       /\ ChargeReached(orderId, gateway) => r.ret.message = "Error al procesar el pago"

(* An unpaid order whose charge the gateway would accept, and declines *)
C11_Witness ==
  \E i \in 1..Len(orders), gateway \in ValidGateways :
    /\ orders[i].estadoPago = "PENDING"
    /\ orders[i].estadoPedido = "PENDING"
    /\ ChargeReached(orders[i].numeroPedido, gateway)
    /\ ProcessPaymentCall(orders[i].numeroPedido, gateway, FALSE).ret.message
         = "Error al procesar el pago"


(* The Payment record, the payment status and the fulfillment status that a *)
(* successful processPayment leaves for the order at position i             *)
PaymentRecorded(i, r) ==
  /\ \E k \in 1..Len(r.payments) :
       /\ r.payments[k].pedido_id = orders[i].numeroPedido
       /\ r.payments[k].estado = "COMPLETED"
       /\ r.payments[k].monto = orders[i].total
  /\ r.orders[i].estadoPago = "COMPLETED"
  /\ orders[i].estadoPedido = "PENDING" => r.orders[i].estadoPedido = "PROCESSING"

PaymentNotified(i, ns) ==
  \E n \in 1..Len(ns) :
    /\ ns[n].tipo = "payment_status"
    /\ ns[n].cliente_id = orders[i].cliente_id

(* C12: when processPayment succeeds for an order, on return a COMPLETED     *)
(* Payment of the order with the order's total exists, the order's payment   *)
(* status is COMPLETED, its fulfillment status is PROCESSING if it was       *)
(* PENDING, and a payment-status notification for the order's customer has   *)
(* been recorded.                                                            *)
C12_SuccessRecordsAndNotifies ==
  \A i \in 1..Len(orders), gateway \in ValidGateways :
    LET r == ProcessPaymentCall(orders[i].numeroPedido, gateway, TRUE)
    IN r.ret.success =>
         /\ PaymentRecorded(i, r)
         /\ PaymentNotified(i, NotificationsAfterPayment(notifications,
                                 orders[i].numeroPedido, gateway, TRUE))

(* The same statement without the notification *)
C12_SuccessRecords ==
  \A i \in 1..Len(orders), gateway \in ValidGateways :
    LET r == ProcessPaymentCall(orders[i].numeroPedido, gateway, TRUE)
    IN r.ret.success => PaymentRecorded(i, r)


(* C13: the Payment record and the order's payment-status update made by     *)
(* processPayment are persisted together or not at all, whether the call     *)
(* reports success or failure and also when a write fails: a call that adds  *)
(* a COMPLETED Payment leaves the order's payment status COMPLETED, and a    *)
(* call that changes the order adds the Payment.                             *)
C13_PaymentAndOrderTogether ==
  \A i \in 1..Len(orders), gateway \in ValidGateways, charged \in BOOLEAN,
     updateOk \in BOOLEAN, saveOk \in BOOLEAN :
    LET r == ProcessPaymentFaultCall(orders[i].numeroPedido, gateway, charged,
                                     updateOk, saveOk)
        added == Len(r.payments) > Len(payments)
    IN /\ added => r.orders[i].estadoPago = "COMPLETED"
       /\ r.orders # orders => added

(* The same statement when no write fails *)
C13_TogetherWithoutFaults ==
  \A i \in 1..Len(orders), gateway \in ValidGateways, charged \in BOOLEAN :
    LET r == ProcessPaymentCall(orders[i].numeroPedido, gateway, charged)
        added == Len(r.payments) > Len(payments)
    IN /\ added => r.orders[i].estadoPago = "COMPLETED"
       /\ r.orders # orders => added

GatewayDeclineMessage == "Error al procesar el pago"

(* C14: when the gateway charge succeeds but a write after it fails (the     *)
(* Payment record or the order update), processPayment does not report       *)
(* success and its failure differs from a gateway decline.                   *)
C14_PostChargeFailureSurfaced ==
  \A i \in 1..Len(orders), gateway \in ValidGateways,
     updateOk \in BOOLEAN, saveOk \in BOOLEAN :
    (ChargeReached(orders[i].numeroPedido, gateway) /\ ~(updateOk /\ saveOk)) =>
      LET r == ProcessPaymentFaultCall(orders[i].numeroPedido, gateway, TRUE,
                                       updateOk, saveOk)
      IN /\ ~r.ret.success
         /\ r.ret.message # GatewayDeclineMessage

-----------------------------------------------------------------------------
(* Properties of processRefund and cancelPayment *)

ExcessAmounts(monto) == {a \in 1..(MaxTotal + 1) : a > monto}

ExceedsMessage == "El monto a reembolsar no puede exceder el monto del pago"

(* C15: processRefund with an amount greater than the payment's original     *)
(* amount fails and leaves the payment's status and the order's payment      *)
(* status unchanged; on a COMPLETED payment the failure is the               *)
(* amount-exceeds one, returned before the gateway is asked to refund.       *)
C15_ExcessRefundRejected ==
  \A k \in 1..Len(payments) :
    \A amount \in ExcessAmounts(payments[k].monto) :
      LET r == ProcessRefundCall(payments[k].id, amount)
      IN /\ ~r.ret.success
         /\ r.payments = payments
         /\ r.orders = orders
         /\ payments[k].estado = "COMPLETED" => r.ret.message = ExceedsMessage

(* A COMPLETED payment of a positive amount, refused a refund one above it *)
C15_Witness ==
  \E k \in 1..Len(payments) :
    /\ payments[k].estado = "COMPLETED"
    /\ payments[k].monto >= 1
    /\ ProcessRefundCall(payments[k].id, payments[k].monto + 1).ret.message = ExceedsMessage
    /\ ProcessRefundCall(payments[k].id, payments[k].monto).ret.success

RefundInputs == 0..(MaxTotal + 1)

RefundOnce(updateOks, saveOks) ==
  \A k \in 1..Len(payments), amount \in RefundInputs :
    \A updateOk \in updateOks, saveOk \in saveOks :
      LET r == ProcessRefundFaultCall(payments[k].id, amount, updateOk, saveOk)
          o == FindIndex(orders, payments[k].pedido_id)
      IN IF r.ret.success
         THEN /\ payments[k].estado = "COMPLETED"
              /\ r.payments[k].estado = "REFUNDED"
              /\ o # 0
              /\ r.orders[o].estadoPago = "REFUNDED"
              /\ \A again \in RefundInputs :
                   LET r2 == ProcessRefundIn(r.orders, r.payments, payments[k].id, again)
                   IN /\ ~r2.ret.success
                      /\ r2.payments = r.payments
                      /\ r2.orders = r.orders
         ELSE /\ r.payments = payments
              /\ r.orders = orders

(* C16: processRefund succeeds only on a COMPLETED payment; on success the   *)
(* payment and the owning order's payment status become REFUNDED; every      *)
(* later processRefund on the same payment fails and changes neither the     *)
(* payment nor the order.  Stated for every answer the write of the payment  *)
(* and the update of the order can get.                                      *)
C16_RefundOnce == RefundOnce(SaveOutcomes, SaveOutcomes)

(* The same statement when the write and the update of the order get through *)
C16_RefundOnceWithoutFaults == RefundOnce({TRUE}, {TRUE})

(* A COMPLETED payment whose refund reports success with the update of the  *)
(* order refused                                                            *)
C16_RefundWithoutOrder ==
  \E k \in 1..Len(payments) :
    LET r == ProcessRefundFaultCall(payments[k].id, 0, FALSE, TRUE)
        o == FindIndex(orders, payments[k].pedido_id)
    IN /\ r.ret.success
       /\ r.payments[k].estado = "REFUNDED"
       /\ r.orders[o].estadoPago # "REFUNDED"


AllowedPaymentChange(from, to) ==
  \/ from = to
  \/ from = "COMPLETED" /\ to \in {"REFUNDED", "CANCELLED"}
  \/ from = "PENDING" /\ to = "CANCELLED"

(* Every step changes a Payment's status in one of the three allowed ways *)
PaymentChangesAllowed ==
  \A k \in 1..Len(payments) :
    /\ k <= Len(payments')
    /\ payments'[k].id = payments[k].id
    /\ AllowedPaymentChange(payments[k].estado, payments'[k].estado)

(* Each allowed change can be made: a COMPLETED payment can be refunded and *)
(* cancelled, a PENDING payment can be cancelled                            *)
PaymentChangesPermitted ==
  \A k \in 1..Len(payments) :
    /\ payments[k].estado = "COMPLETED" =>
         /\ ProcessRefundCall(payments[k].id, 0).payments[k].estado = "REFUNDED"
         /\ CancelPaymentCall(payments[k].id).payments[k].estado = "CANCELLED"
    /\ payments[k].estado = "PENDING" =>
         CancelPaymentCall(payments[k].id).payments[k].estado = "CANCELLED"

(* C17: across processPayment, cancelPayment and processRefund the only      *)
(* changes of a Payment's status are COMPLETED to REFUNDED, COMPLETED to     *)
(* CANCELLED and PENDING to CANCELLED, each of them is permitted, and a      *)
(* REFUNDED, CANCELLED or FAILED payment never changes status again.         *)
C17_PaymentTransitions ==
  [][PaymentChangesPermitted /\ PaymentChangesAllowed]_vars

(* The part of C17 that forbids: no step makes any other change *)
C17_OnlyAllowedChanges == [][PaymentChangesAllowed]_vars

-----------------------------------------------------------------------------
(* Properties of the two statuses of an order *)

(* C18: updatePaymentStatus(orderId, COMPLETED) changes the fulfillment      *)
(* status to PROCESSING exactly when it was PENDING; in every other case     *)
(* updatePaymentStatus leaves the fulfillment status unchanged; and          *)
(* updateOrderStatus and cancelOrder leave the payment status unchanged.     *)
C18_StatusCoupling ==
  \A i \in 1..Len(orders) :
    LET id == orders[i].numeroPedido
    IN /\ \A paymentStatus \in PaymentStatusInputs :
            LET r == UpdatePaymentStatusCall(id, paymentStatus)
            IN r.orders[i].estadoPedido =
                 IF paymentStatus = "COMPLETED" /\ orders[i].estadoPedido = "PENDING"
                 THEN "PROCESSING" ELSE orders[i].estadoPedido
       /\ \A status \in StatusInputs :
            UpdateOrderStatusCall(id, status).orders[i].estadoPago = orders[i].estadoPago
       /\ \A saveOk \in BOOLEAN :
            CancelOrderCall(id, saveOk).orders[i].estadoPago = orders[i].estadoPago

(* A SHIPPED order that is marked paid and stays SHIPPED, after its status  *)
(* was moved by updateOrderStatus while the payment was pending             *)
C18_Witness ==
  \E i \in 1..Len(orders) :
    /\ orders[i].estadoPedido = "SHIPPED"
    /\ orders[i].estadoPago = "PENDING"
    /\ UpdatePaymentStatusCall(orders[i].numeroPedido, "COMPLETED").ret.success
    /\ UpdatePaymentStatusCall(orders[i].numeroPedido, "COMPLETED").orders[i].estadoPedido
         = "SHIPPED"
    /\ UpdatePaymentStatusCall(orders[i].numeroPedido, "COMPLETED").orders[i].estadoPago
         = "COMPLETED"

-----------------------------------------------------------------------------
(* Properties of the catalog operations *)

(* deleteProduct keeps every record, its identifier, stock and price, and  *)
(* leaves the record it names inactive.                                    *)
DeleteKeeps(productId) ==
  LET d == DeleteProduct(products, productId).products
  IN /\ Len(d) = Len(products)
     /\ \A i \in 1..Len(products) :
          /\ d[i].id = products[i].id
          /\ d[i].stock_disponible = products[i].stock_disponible
          /\ d[i].precio = products[i].precio
     /\ productId \in ProductIds(products) => ~d[FindProduct(d, productId)].activo

(* C19: a product's stock is changed only through updateStock: updateProduct *)
(* and deleteProduct leave stock_disponible unchanged, and deleteProduct     *)
(* never removes the product record, it only sets the active flag to false.  *)
C19_StockOnlyThroughUpdateStock ==
  \A productId \in PIDs \cup {UnknownPID} :
    /\ \A patch \in ProductPatches :
         \A i \in 1..Len(products) :
           UpdateProduct(products, productId, patch).products[i].stock_disponible
             = products[i].stock_disponible
    /\ DeleteKeeps(productId)

(* The part of C19 about deleteProduct *)
C19_DeleteKeepsRecord ==
  \A productId \in PIDs \cup {UnknownPID} :
    DeleteKeeps(productId)

-----------------------------------------------------------------------------
(* Properties of the line items *)

(* Requests with at least one line item of quantity zero or negative *)
NonPositiveItemLists ==
  {items \in SeqsUpTo([producto_id : PIDs, cantidad : (-1)..MaxQty], MaxItems) :
     \E j \in 1..Len(items) : items[j].cantidad <= 0}

(* C20: every line item of every persisted order has quantity >= 1, and a   *)
(* createOrder call containing a line item of quantity 0 or negative        *)
(* creates no order and changes no product's stock.                         *)
C20_QuantityAtLeastOne ==
  /\ \A i \in 1..Len(orders) :
       \A j \in 1..Len(orders[i].productos) : orders[i].productos[j].cantidad >= 1
  /\ \A items \in NonPositiveItemLists :
       LET r == CreateOrderCall(items)
       IN /\ ~r.ret.success
          /\ r.orders = orders
          /\ r.products = products

-----------------------------------------------------------------------------
(* The end-to-end scenario *)

ScenarioItems(p) == <<[producto_id |-> p, cantidad |-> Scenario.cantidad]>>

(* The scenario run from the current state on product p: createOrder, then  *)
(* processPayment with the charge accepted, then cancelOrder.               *)
ScenarioRun(p, gateway) ==
  LET c == CreateOrderCall(ScenarioItems(p))
      id == c.orders[Len(c.orders)].numeroPedido
      pay == ProcessPaymentIn(c.orders, payments, id, gateway, TRUE, TRUE, TRUE)
      x == CancelOrderIn(c.products, pay.orders, id, TRUE)
  IN [c |-> c, pay |-> pay, x |-> x]

(* C21: with a product of stock 10 and price 5, createOrder of quantity 3    *)
(* gives stock 7, total 15, payment status PENDING and fulfillment PENDING;  *)
(* processPayment with the charge accepted gives a COMPLETED Payment, order  *)
(* payment status COMPLETED and fulfillment PROCESSING; cancelOrder then     *)
(* succeeds, the order becomes CANCELLED and the stock returns to 10.        *)
C21_EndToEnd ==
  \A p \in PIDs, gateway \in ValidGateways :
    (StockOf(products, p) = Scenario.stock /\ Len(orders) = 0) =>
      LET r == ScenarioRun(p, gateway)
          o == r.c.orders[1]
      IN /\ r.c.ret.success
         /\ StockOf(r.c.products, p) = Scenario.stock - Scenario.cantidad
         /\ o.total = Scenario.precio * Scenario.cantidad
         /\ o.estadoPago = "PENDING"
         /\ o.estadoPedido = "PENDING"
         /\ r.pay.ret.success
         /\ Len(r.pay.payments) = Len(payments) + 1
         /\ r.pay.payments[Len(r.pay.payments)].estado = "COMPLETED"
         /\ r.pay.payments[Len(r.pay.payments)].pedido_id = o.numeroPedido
         /\ r.pay.orders[1].estadoPago = "COMPLETED"
         /\ r.pay.orders[1].estadoPedido = "PROCESSING"
         /\ r.x.ret.success
         /\ r.x.orders[1].estadoPedido = "CANCELLED"
         /\ StockOf(r.x.products, p) = Scenario.stock

(* The end of the scenario: the order of 3 units, paid and then cancelled,  *)
(* with its total of 15, its COMPLETED Payment and the stock back at 10.    *)
C21_Witness ==
  \E p \in PIDs :
    /\ Len(orders) = 1
    /\ orders[1].productos
         = <<[producto_id |-> p, cantidad |-> Scenario.cantidad,
              precio_unitario |-> Scenario.precio]>>
    /\ orders[1].total = Scenario.precio * Scenario.cantidad
    /\ orders[1].estadoPedido = "CANCELLED"
    /\ orders[1].estadoPago = "COMPLETED"
    /\ Len(payments) = 1
    /\ payments[1].estado = "COMPLETED"
    /\ payments[1].monto = orders[1].total
    /\ StockOf(products, p) = Scenario.stock

-----------------------------------------------------------------------------
(* How a core operation ends: by returning a result or by throwing *)

(* What can go wrong around a Sequelize transaction:                        *)
(*   "begin"    sequelize.transaction() rejects;                            *)
(*   "rollback" transaction.rollback() rejects;                             *)
(*   "commit"   transaction.commit() rejects;                               *)
(*   "find"     a query made after the commit rejects.                      *)
TxFaults == {"none", "begin", "rollback", "commit", "find"}

(* transaction.rollback() throws when the ROLLBACK fails and when the       *)
(* transaction is finished already (finished is "commit" once commit() was  *)
(* called, whether it succeeded or not, "none" before).                     *)
RollbackThrows(finished, fault) == finished # "none" \/ fault = "rollback"

(* catch (error) { await transaction.rollback(); ...; return { success: false } } *)
CatchOutcome(finished, fault) ==
  IF RollbackThrows(finished, fault) THEN "thrown" ELSE "returned"

(* An operation of the SQLite services.  The transaction is begun in front  *)
(* of the try block.  A call that fails rolls back, in the try block or in  *)
(* the catch block; a call that succeeds commits and, when queryAfterCommit, *)
(* reads the row again before it returns.                                   *)
SqlTxOutcome(fault, succeeds, queryAfterCommit) ==
  IF fault = "begin" THEN "thrown"
  ELSE IF ~succeeds THEN CatchOutcome("none", fault)
  ELSE IF fault = "commit" THEN CatchOutcome("commit", fault)
  ELSE IF fault = "find" /\ queryAfterCommit THEN CatchOutcome("commit", fault)
  ELSE "returned"

(* An operation of the monolith, and updateOrderStatus and                  *)
(* updatePaymentStatus of the orders service: the whole body is in a try    *)
(* block whose catch block returns { success: false }.                      *)
TryCatchOutcome(fault) == "returned"

CreateOrderOutcome(items, fault) ==
  IF variant = "json" THEN TryCatchOutcome(fault)
  ELSE SqlTxOutcome(fault, CreateOrderCall(items).ret.success, TRUE)

CancelOrderOutcome(orderId, saveOk, fault) ==
  IF variant = "json" THEN TryCatchOutcome(fault)
  ELSE SqlTxOutcome(fault, CancelOrderCall(orderId, saveOk).ret.success, FALSE)

UpdateOrderStatusOutcome(orderId, status, fault) == TryCatchOutcome(fault)

UpdatePaymentStatusOutcome(orderId, paymentStatus, fault) == TryCatchOutcome(fault)

ProcessPaymentOutcome(orderId, gateway, charged, updateOk, saveOk, fault) ==
  IF variant = "json" THEN TryCatchOutcome(fault)
  ELSE SqlTxOutcome(fault,
         ProcessPaymentFaultCall(orderId, gateway, charged, updateOk, saveOk).ret.success,
         FALSE)

CancelPaymentOutcome(paymentId, fault) ==
  IF variant = "json" THEN TryCatchOutcome(fault)
  ELSE SqlTxOutcome(fault, CancelPaymentCall(paymentId).ret.success, FALSE)

ProcessRefundOutcome(paymentId, amount, fault) ==
  IF variant = "json" THEN TryCatchOutcome(fault)
  ELSE SqlTxOutcome(fault, ProcessRefundCall(paymentId, amount).ret.success, FALSE)

(* C22: every core operation (createOrder, cancelOrder, updateOrderStatus,   *)
(* updatePaymentStatus, processPayment, cancelPayment, processRefund) ends   *)
(* by returning a result; none lets an exception escape, also when starting, *)
(* committing or rolling back a transaction fails or a query after the       *)
(* commit fails.                                                             *)
C22_NoExceptionEscapes ==
  \A fault \in TxFaults :
    /\ \A items \in ItemLists : CreateOrderOutcome(items, fault) = "returned"
    /\ \A orderId \in OrderIdInputs :
         /\ \A saveOk \in BOOLEAN : CancelOrderOutcome(orderId, saveOk, fault) = "returned"
         /\ \A status \in StatusInputs :
              UpdateOrderStatusOutcome(orderId, status, fault) = "returned"
         /\ \A paymentStatus \in PaymentStatusInputs :
              UpdatePaymentStatusOutcome(orderId, paymentStatus, fault) = "returned"
         /\ \A gateway \in GatewayInputs, charged \in BOOLEAN,
               updateOk \in BOOLEAN, saveOk \in BOOLEAN :
              ProcessPaymentOutcome(orderId, gateway, charged, updateOk, saveOk, fault)
                = "returned"
    /\ \A paymentId \in PaymentIdInputs :
         /\ CancelPaymentOutcome(paymentId, fault) = "returned"
         /\ \A amount \in AmountInputs :
              ProcessRefundOutcome(paymentId, amount, fault) = "returned"

(* The same statement when no transaction step fails, and in the monolith   *)
C22_ReturnsWithoutTxFaults ==
  \A fault \in IF variant = "json" THEN TxFaults ELSE {"none"} :
    /\ \A items \in ItemLists : CreateOrderOutcome(items, fault) = "returned"
    /\ \A orderId \in OrderIdInputs :
         /\ \A saveOk \in BOOLEAN : CancelOrderOutcome(orderId, saveOk, fault) = "returned"
         /\ \A gateway \in GatewayInputs, charged \in BOOLEAN,
               updateOk \in BOOLEAN, saveOk \in BOOLEAN :
              ProcessPaymentOutcome(orderId, gateway, charged, updateOk, saveOk, fault)
                = "returned"
    /\ \A paymentId \in PaymentIdInputs :
         /\ CancelPaymentOutcome(paymentId, fault) = "returned"
         /\ \A amount \in AmountInputs :
              ProcessRefundOutcome(paymentId, amount, fault) = "returned"

-----------------------------------------------------------------------------
(* The values of the two statuses *)

CancelPaymentIn(os, ps, paymentId) ==
  IF variant = "json" THEN JsonCancelPayment(os, ps, paymentId)
  ELSE SqlCancelPayment(os, ps, paymentId)

(* A payments table holding one PENDING payment of the order: the default  *)
(* status of a Payment row, which cancelPayment accepts                     *)
PendingPaymentOf(o) ==
  <<[NewPayment(1, o.numeroPedido, o.total, "paypal") EXCEPT !.estado = "PENDING"]>>

(* C23: in every reachable state every order's payment status is one of      *)
(* PENDING, COMPLETED, FAILED, REFUNDED and its fulfillment status one of    *)
(* PENDING, PROCESSING, SHIPPED, DELIVERED, CANCELLED; updateOrderStatus and *)
(* updatePaymentStatus with a value outside the respective set fail and      *)
(* leave the order unchanged, also when cancelPayment asks for the order     *)
(* payment status 'CANCELLED'.                                               *)
C23_StatusesInRange ==
  \A i \in 1..Len(orders) :
    LET id == orders[i].numeroPedido
    IN /\ orders[i].estadoPago \in PAYMENT_STATUSES
       /\ orders[i].estadoPedido \in ORDER_STATUSES
       /\ \A status \in StatusInputs \ ORDER_STATUSES :
            /\ ~UpdateOrderStatusCall(id, status).ret.success
            /\ UpdateOrderStatusCall(id, status).orders = orders
       /\ \A paymentStatus \in PaymentStatusInputs \ PAYMENT_STATUSES :
            /\ ~UpdatePaymentStatusCall(id, paymentStatus).ret.success
            /\ UpdatePaymentStatusCall(id, paymentStatus).orders = orders
       /\ LET r == CancelPaymentIn(orders, PendingPaymentOf(orders[i]), 1)
          IN /\ r.ret.success
             /\ r.payments[1].estado = "CANCELLED"
             /\ r.orders = orders

(* A paid order in PROCESSING for which 'CANCELLED' is refused as a payment *)
(* status and 'RETURNED' as a fulfillment status                            *)
C23_Witness ==
  \E i \in 1..Len(orders) :
    /\ orders[i].estadoPago = "COMPLETED"
    /\ orders[i].estadoPedido = "PROCESSING"
    /\ UpdatePaymentStatusCall(orders[i].numeroPedido, "CANCELLED").ret.message
         = "Estado de pago no valido"
    /\ UpdateOrderStatusCall(orders[i].numeroPedido, "RETURNED").ret.message
         = "Estado no valido"
    /\ CancelPaymentIn(orders, PendingPaymentOf(orders[i]), 1).orders[i].estadoPago
         = "COMPLETED"

-----------------------------------------------------------------------------
(* processPayment for an order that does not exist *)

UnknownOrderIds == OrderIdInputs \ OrderIds

(* C24: processPayment for an order id that does not exist fails with a      *)
(* not-found result, creates no Payment record and changes no order, whether *)
(* or not the gateway would accept a charge.                                 *)
C24_UnknownOrderNotFound ==
  \A orderId \in UnknownOrderIds, gateway \in ValidGateways, charged \in BOOLEAN :
    LET r == ProcessPaymentCall(orderId, gateway, charged)
    IN /\ ~r.ret.success
       /\ r.ret.message = "Orden no encontrada"
       /\ r.payments = payments
       /\ r.orders = orders

(* The same statement without the kind of the failure *)
C24_UnknownOrderNoEffect ==
  \A orderId \in UnknownOrderIds, gateway \in ValidGateways, charged \in BOOLEAN :
    LET r == ProcessPaymentCall(orderId, gateway, charged)
    IN /\ ~r.ret.success
       /\ r.payments = payments
       /\ r.orders = orders

-----------------------------------------------------------------------------
(* notificationsService (JSON file) *)

MaxNotifications == 2

(* A request without a customer: cliente_id null *)
NullClient == 0

ClientInputs == Customers \cup {NullClient}
MessageInputs == {"", "promo"}
TypeInputs == {"", "promotion", "order_status"}

NotificationInputs ==
  [cliente_id : ClientInputs, mensaje : MessageInputs, tipo : TypeInputs,
   enviada : BOOLEAN]

NextNotificationId(ns) ==
  IF Len(ns) > 0 THEN MaxOf({ns[i].id : i \in 1..Len(ns)}) + 1 ELSE 3001

NotificationIds == {notifications[i].id : i \in 1..Len(notifications)}

(* fecha_envio is null until the notification is sent, a timestamp after *)
CreateNotification(ns, data) ==
  IF data.cliente_id = NullClient \/ data.mensaje = "" \/ data.tipo = ""
  THEN [notifications |-> ns,
        ret |-> Ret("createNotification", FALSE,
                    "Datos incompletos. Se requiere cliente_id, mensaje y tipo")]
  ELSE [notifications |->
          Append(ns, [id |-> NextNotificationId(ns), cliente_id |-> data.cliente_id,
                      mensaje |-> data.mensaje, tipo |-> data.tipo,
                      enviada |-> data.enviada,
                      fecha_envio |-> IF data.enviada THEN "now" ELSE "null"]),
        ret |-> Ret("createNotification", TRUE, "")]

MarkAsSent(ns, notificationId) ==
  IF \E i \in 1..Len(ns) : ns[i].id = notificationId
  THEN LET notificationIndex == CHOOSE i \in 1..Len(ns) : ns[i].id = notificationId
       IN [notifications |-> [ns EXCEPT ![notificationIndex].enviada = TRUE,
                                        ![notificationIndex].fecha_envio = "now"],
           ret |-> Ret("markAsSent", TRUE, "")]
  ELSE [notifications |-> ns, ret |-> Ret("markAsSent", FALSE, "Notificacion no encontrada")]

(* sendPromotionNotification is an arrow function of the object literal: its *)
(* `this` is the module's first exports object, which has no                 *)
(* createNotification, so `this.createNotification(...)` raises a TypeError  *)
(* that the catch block turns into a failure.                                *)
ThisHasCreateNotification == FALSE

SendPromotionNotification(ns, clientId, mensaje) ==
  IF mensaje = ""
  THEN [notifications |-> ns,
        ret |-> Ret("sendPromotionNotification", FALSE, "El mensaje es obligatorio")]
  ELSE IF ThisHasCreateNotification
  THEN CreateNotification(ns, [cliente_id |-> clientId, mensaje |-> mensaje,
                               tipo |-> "promotion", enviada |-> FALSE])
  ELSE [notifications |-> ns,
        ret |-> Ret("sendPromotionNotification", FALSE,
                    "Error al enviar notificacion promocional")]

createNotification(data) ==
  LET r == CreateNotification(notifications, data)
  IN /\ Len(r.notifications) <= MaxNotifications
     /\ notifications' = r.notifications
     /\ UNCHANGED <<variant, scope, products, orders, payments, calls>>

markAsSent(notificationId) ==
  LET r == MarkAsSent(notifications, notificationId)
  IN /\ notifications' = r.notifications
     /\ UNCHANGED <<variant, scope, products, orders, payments, calls>>

sendPromotionNotification(clientId, mensaje) ==
  LET r == SendPromotionNotification(notifications, clientId, mensaje)
  IN /\ Len(r.notifications) <= MaxNotifications
     /\ notifications' = r.notifications
     /\ UNCHANGED <<variant, scope, products, orders, payments, calls>>

InitNotify == InitWith("stock")

NextNotify ==
  \/ \E data \in NotificationInputs : createNotification(data)
  \/ \E notificationId \in NotificationIds \cup {0} : markAsSent(notificationId)
  \/ \E clientId \in ClientInputs, mensaje \in MessageInputs :
       sendPromotionNotification(clientId, mensaje)

SpecNotify == InitNotify /\ [][NextNotify]_vars

(* C25: a notification can be emitted with a null target customer (a         *)
(* broadcast): sendPromotionNotification(null, message) with a non-empty     *)
(* message succeeds and persists one promotion notification whose cliente_id *)
(* is null, whose sent flag is false and whose sent timestamp is null.       *)
C25_BroadcastPromotion ==
  \A mensaje \in MessageInputs \ {""} :
    LET r == SendPromotionNotification(notifications, NullClient, mensaje)
        n == r.notifications[Len(r.notifications)]
    IN /\ r.ret.success
       /\ Len(r.notifications) = Len(notifications) + 1
       /\ n.tipo = "promotion"
       /\ n.cliente_id = NullClient
       /\ ~n.enviada
       /\ n.fecha_envio = "null"

(* createNotification called directly refuses a null customer too *)
C25_NullCustomerRefused ==
  \A data \in NotificationInputs :
    data.cliente_id = NullClient =>
      /\ ~CreateNotification(notifications, data).ret.success
      /\ CreateNotification(notifications, data).notifications = notifications

-----------------------------------------------------------------------------
(* The HTTP layer.  A route gives the responses it sends, in the order it   *)
(* sends them (the HTTP status of each), whether it invoked the service     *)
(* operation, and the files or tables it leaves.                            *)

(* req.user, from the verified token: the owner of every order, another     *)
(* customer, an administrator                                               *)
Owner == [id |-> Customer, role |-> "customer"]
Stranger == [id |-> MaxOf(Customers) + 1, role |-> "customer"]
Admin == [id |-> MaxOf(Customers) + 2, role |-> "admin"]
Users == {Owner, Stranger, Admin}

(* An id that is present in a request and names no order, no payment *)
MissingOrderId == MaxOf(OrderIds \cup {0}) + 1
MissingPaymentId == MaxOf(PaymentIds \cup {0}) + 1

RouteOrderIds == OrderIds \cup {MissingOrderId}
RoutePaymentIds == PaymentIds \cup {MissingPaymentId}
RouteGateways == GatewayInputs \cup {""}
RouteStatuses == StatusInputs \cup {""}

(* exits: an exception is raised where nothing catches it (a callback of a  *)
(* promise without catch, the catch block of the handler) and the          *)
(* unhandled rejection ends the process                                    *)
Response(responses, invoked, prods, os, ps) ==
  [responses |-> responses, invoked |-> invoked, products |-> prods, orders |-> os,
   payments |-> ps, exits |-> FALSE]

Exit(r) == [r EXCEPT !.exits = TRUE]

MayAct(user, os, orderIndex) ==
  user.role = "admin" \/ os[orderIndex].cliente_id = user.id

(* PATCH /api/orders/:id/status *)
PatchOrderStatusRoute(prods, os, ps, orderId, status) ==
  IF status = "" THEN Response(<<400>>, FALSE, prods, os, ps)
  ELSE LET r == JsonUpdateOrderStatus(os, orderId, status)
       IN Response(IF r.ret.success THEN <<200>> ELSE <<400>>, TRUE, prods, r.orders, ps)

(* DELETE /api/orders/:id *)
DeleteOrderRoute(prods, os, ps, user, orderId) ==
  LET orderIndex == FindIndex(os, orderId)
  IN IF orderIndex = 0 THEN Response(<<404>>, FALSE, prods, os, ps)
     ELSE IF ~MayAct(user, os, orderIndex) THEN Response(<<403>>, FALSE, prods, os, ps)
     ELSE LET r == JsonCancelOrder(prods, os, orderId, TRUE)
          IN Response(IF r.ret.success THEN <<200>> ELSE <<400>>, TRUE,
                      r.products, r.orders, ps)

(* PATCH /api/notifications/:id/mark-sent *)
MarkSentRoute(ns, notificationId) ==
  LET r == MarkAsSent(ns, notificationId)
  IN [responses |-> IF r.ret.success THEN <<200>> ELSE <<400>>, invoked |-> TRUE,
      notifications |-> r.notifications]

(* POST /api/payments/process, monolith: every check returns before the    *)
(* service is called.                                                       *)
JsonProcessRoute(prods, os, ps, user, orderId, gateway, charged) ==
  LET orderIndex == FindIndex(os, orderId)
  IN IF orderId = 0 \/ gateway = "" THEN Response(<<400>>, FALSE, prods, os, ps)
     ELSE IF orderIndex = 0 THEN Response(<<404>>, FALSE, prods, os, ps)
     ELSE IF ~MayAct(user, os, orderIndex) THEN Response(<<403>>, FALSE, prods, os, ps)
     ELSE LET r == JsonProcessPayment(os, ps, orderId, gateway, charged)
          IN Response(IF r.ret.success THEN <<200>> ELSE <<400>>, TRUE,
                      prods, r.orders, r.payments)

(* DELETE /api/payments/:id, monolith.  The order of the payment is read    *)
(* without a test of the result: for a missing order and a requester who is *)
(* no administrator, orderCheck.order.cliente_id raises and the catch block *)
(* answers 500.                                                             *)
JsonCancelPaymentRoute(prods, os, ps, user, paymentId) ==
  LET paymentIndex == FindPayment(ps, paymentId)
      orderIndex == FindIndex(os, ps[paymentIndex].pedido_id)
  IN IF paymentIndex = 0 THEN Response(<<404>>, FALSE, prods, os, ps)
     ELSE IF user.role # "admin" /\ orderIndex = 0
     THEN Response(<<500>>, FALSE, prods, os, ps)
     ELSE IF user.role # "admin" /\ ~MayAct(user, os, orderIndex)
     THEN Response(<<403>>, FALSE, prods, os, ps)
     ELSE LET r == JsonCancelPayment(os, ps, paymentId)
          IN Response(IF r.ret.success THEN <<200>> ELSE <<400>>, TRUE,
                      prods, r.orders, r.payments)

(* POST /api/payments/:id/refund, monolith *)
JsonRefundRoute(prods, os, ps, paymentId, amount) ==
  LET r == JsonProcessRefund(os, ps, paymentId, amount)
  IN Response(IF r.ret.success THEN <<200>> ELSE <<400>>, TRUE, prods, r.orders, r.payments)

(* The payments microservice.  The ownership check is in the callback of a  *)
(* promise that the handler does not await: the handler goes on to call the *)
(* service whatever the callback answers.  The value the handler awaits is  *)
(* the service's result object, so `result.then(...)` raises a TypeError    *)
(* and the catch block answers 500.  The callback runs "first", before the  *)
(* service's transaction commits; "committed", after the commit and before  *)
(* the catch block; or "last", after the catch block.  A response after the *)
(* first one raises in Express (headers already sent); it is kept in        *)
(* `responses` as attempted, and nothing catches what it raises.            *)
CheckTimes == {"first", "committed", "last"}

CheckThen(check, checkAt) ==
  LET responses == IF checkAt = "last" THEN <<500>> \o check ELSE check \o <<500>>
  IN [responses |-> responses, exits |-> Len(responses) > 1]

Answer(answered, prods, os, ps) ==
  [Response(answered.responses, TRUE, prods, os, ps) EXCEPT !.exits = answered.exits]

(* The handler of POST /api/payments/process answers 400 to a body without  *)
(* orderId or gateway and calls the service otherwise                       *)
ProcessReached(orderId, gateway) == ~(orderId = 0 \/ gateway = "")

(* POST /api/payments/process, payments microservice *)
SqlProcessRoute(prods, os, ps, user, orderId, gateway, charged, checkAt) ==
  LET orderIndex == FindIndex(os, orderId)
      check == IF orderIndex = 0 THEN <<404>>
               ELSE IF ~MayAct(user, os, orderIndex) THEN <<403>>
               ELSE <<>>
      r == SqlProcessPayment(os, ps, orderId, gateway, charged)
  IN IF ~ProcessReached(orderId, gateway) THEN Response(<<400>>, FALSE, prods, os, ps)
     ELSE Answer(CheckThen(check, checkAt), prods, r.orders, r.payments)

(* DELETE /api/payments/:id, payments microservice.  For a requester who is *)
(* no administrator the inner callback reads response_order.order.cliente_id *)
(* and raises when the order is missing; the promise has no catch and the    *)
(* process ends there: before the commit nothing is stored and nothing is    *)
(* answered, after the commit the payment is cancelled and nothing is        *)
(* answered, after the catch block the 500 has been sent.                    *)
SqlCancelPaymentRoute(prods, os, ps, user, paymentId, checkAt) ==
  LET paymentIndex == FindPayment(ps, paymentId)
      orderIndex == FindIndex(os, ps[paymentIndex].pedido_id)
      raises == paymentIndex # 0 /\ user.role # "admin" /\ orderIndex = 0
      check == IF paymentIndex = 0 THEN <<404>>
               ELSE IF user.role = "admin" THEN <<>>
               ELSE IF ~MayAct(user, os, orderIndex) THEN <<403>>
               ELSE <<>>
      r == SqlCancelPayment(os, ps, paymentId)
  IN IF ~raises THEN Answer(CheckThen(check, checkAt), prods, r.orders, r.payments)
     ELSE IF checkAt = "first" THEN Exit(Response(<<>>, TRUE, prods, os, ps))
     ELSE IF checkAt = "committed"
     THEN Exit(Response(<<>>, TRUE, prods, r.orders, r.payments))
     ELSE Exit(Response(<<500>>, TRUE, prods, r.orders, r.payments))

(* POST /api/payments/:id/refund, payments microservice *)
SqlRefundRoute(prods, os, ps, paymentId, amount) ==
  LET r == SqlProcessRefund(os, ps, paymentId, amount)
  IN Response(<<500>>, TRUE, prods, r.orders, r.payments)

ProcessRouteCall(user, orderId, gateway, charged, checkAt) ==
  IF variant = "json"
  THEN JsonProcessRoute(products, orders, payments, user, orderId, gateway, charged)
  ELSE SqlProcessRoute(products, orders, payments, user, orderId, gateway, charged,
                       checkAt)

CancelPaymentRouteCall(user, paymentId, checkAt) ==
  IF variant = "json"
  THEN JsonCancelPaymentRoute(products, orders, payments, user, paymentId)
  ELSE SqlCancelPaymentRoute(products, orders, payments, user, paymentId, checkAt)

RefundRouteCall(paymentId, amount) ==
  IF variant = "json" THEN JsonRefundRoute(products, orders, payments, paymentId, amount)
  ELSE SqlRefundRoute(products, orders, payments, paymentId, amount)

(* The response the client receives: the first one sent *)
Sent(r) == r.responses[1]

ApplyRoute(r) ==
  /\ Bounded(r.products, r.orders, r.payments)
  /\ products' = r.products
  /\ orders' = r.orders
  /\ payments' = r.payments
  /\ UNCHANGED <<variant, scope, notifications, calls>>

(* The order routes in src/routes are the monolith's *)
patchOrderStatus(orderId, status) ==
  /\ variant = "json"
  /\ ApplyRoute(PatchOrderStatusRoute(products, orders, payments, orderId, status))

deleteOrder(user, orderId) ==
  /\ variant = "json"
  /\ ApplyRoute(DeleteOrderRoute(products, orders, payments, user, orderId))

patchMarkSent(notificationId) ==
  /\ notifications' = MarkSentRoute(notifications, notificationId).notifications
  /\ UNCHANGED <<variant, scope, products, orders, payments, calls>>

(* In the payments microservice the handler that reaches the service hands  *)
(* it the request; the call then advances by its awaits                     *)
postProcess(user, orderId, gateway, charged, checkAt) ==
  IF variant = "json"
  THEN ApplyRoute(JsonProcessRoute(products, orders, payments, user, orderId, gateway,
                                   charged))
  ELSE /\ ProcessReached(orderId, gateway)
       /\ processPayment(orderId, gateway, charged, TRUE, TRUE)

deletePayment(user, paymentId, checkAt) ==
  IF variant = "json"
  THEN ApplyRoute(JsonCancelPaymentRoute(products, orders, payments, user, paymentId))
  ELSE cancelPayment(paymentId)

postRefund(paymentId, amount) ==
  IF variant = "json"
  THEN ApplyRoute(JsonRefundRoute(products, orders, payments, paymentId, amount))
  ELSE processRefund(paymentId, amount)

InitRoutes == InitWith("stock")

NextRoutes ==
  \/ \E items \in Drive(ItemLists, OneItemLists) : createOrder(items, TRUE)
  \/ \E orderId \in Drive(OrderIdInputs, OrderIds),
        status \in Drive(StatusInputs, ORDER_STATUSES) :
       updateOrderStatus(orderId, status)
  \/ \E orderId \in Drive(OrderIdInputs, OrderIds) : cancelOrder(orderId, TRUE)
  \/ \E orderId \in RouteOrderIds, status \in RouteStatuses :
       patchOrderStatus(orderId, status)
  \/ \E user \in Users, orderId \in RouteOrderIds : deleteOrder(user, orderId)
  \/ \E notificationId \in NotificationIds \cup {0} : patchMarkSent(notificationId)
  \/ \E user \in Users, orderId \in RouteOrderIds \cup {0}, gateway \in RouteGateways,
        charged \in BOOLEAN, checkAt \in CheckTimes :
       postProcess(user, orderId, gateway, charged, checkAt)
  \/ \E user \in Users, paymentId \in RoutePaymentIds, checkAt \in CheckTimes :
       deletePayment(user, paymentId, checkAt)
  \/ \E paymentId \in RoutePaymentIds, amount \in AmountInputs :
       postRefund(paymentId, amount)
  \/ Resume

SpecRoutes == InitRoutes /\ [][NextRoutes]_vars

-----------------------------------------------------------------------------
(* Properties of the HTTP layer *)

MissingNotificationId == MaxOf(NotificationIds \cup {0}) + 1

(* C26: whenever a service operation called by a route fails because the     *)
(* addressed order, payment or notification does not exist, the response     *)
(* status is 404, for every route: PATCH /api/orders/:id/status,             *)
(* DELETE /api/orders/:id, PATCH /api/notifications/:id/mark-sent,           *)
(* POST /api/payments/process, DELETE /api/payments/:id and                  *)
(* POST /api/payments/:id/refund.                                            *)
C26_NotFoundIs404 ==
  /\ variant = "json" =>
       /\ \A status \in ORDER_STATUSES :
            Sent(PatchOrderStatusRoute(products, orders, payments, MissingOrderId, status))
              = 404
       /\ \A user \in Users :
            Sent(DeleteOrderRoute(products, orders, payments, user, MissingOrderId)) = 404
       /\ Sent(MarkSentRoute(notifications, MissingNotificationId)) = 404
  /\ \A user \in Users, gateway \in ValidGateways, charged \in BOOLEAN,
        checkAt \in CheckTimes :
       Sent(ProcessRouteCall(user, MissingOrderId, gateway, charged, checkAt)) = 404
  /\ \A user \in Users, checkAt \in CheckTimes :
       Sent(CancelPaymentRouteCall(user, MissingPaymentId, checkAt)) = 404
  /\ \A amount \in AmountInputs : Sent(RefundRouteCall(MissingPaymentId, amount)) = 404

(* The monolith's routes that look the entity up themselves answer 404, and *)
(* every refusal of an existing entity by the service is answered 400       *)
C26_MonolithLookupRoutes ==
  variant = "json" =>
    /\ \A user \in Users :
         /\ Sent(DeleteOrderRoute(products, orders, payments, user, MissingOrderId)) = 404
         /\ Sent(CancelPaymentRouteCall(user, MissingPaymentId, "first")) = 404
         /\ \A gateway \in ValidGateways, charged \in BOOLEAN :
              Sent(ProcessRouteCall(user, MissingOrderId, gateway, charged, "first")) = 404
    /\ \A i \in 1..Len(orders) :
         /\ \A status \in StatusInputs \ ORDER_STATUSES :
              Sent(PatchOrderStatusRoute(products, orders, payments,
                                         orders[i].numeroPedido, status)) = 400
         /\ NotCancellable(orders[i].estadoPedido) =>
              Sent(DeleteOrderRoute(products, orders, payments, Owner,
                                    orders[i].numeroPedido)) = 400
         /\ \A gateway \in GatewayInputs \ PAYMENT_GATEWAYS :
              Sent(ProcessRouteCall(Owner, orders[i].numeroPedido, gateway, TRUE, TRUE))
                = 400
    /\ \A k \in 1..Len(payments) :
         \A amount \in ExcessAmounts(payments[k].monto) :
           Sent(RefundRouteCall(payments[k].id, amount)) = 400

-----------------------------------------------------------------------------
(* Conservation of stock in the monolith *)

(* Every product starts with the same known stock, low enough for a stock   *)
(* to rise above it without leaving the model.                              *)
InitialStock == Scenario.stock - Scenario.cantidad

InitConserve ==
  /\ variant = "json"
  /\ scope = "e2e"
  /\ products \in Catalogs({InitialStock}, {Scenario.precio})
  /\ orders = <<>>
  /\ payments = <<>>
  /\ notifications = <<>>
  /\ calls = [p \in Procs |-> IdleCall]

NextConserve ==
  \/ \E items \in ItemLists : createOrder(items, TRUE)
  \/ \E orderId \in OrderIdInputs : cancelOrder(orderId, TRUE)
  \/ \E orderId \in OrderIdInputs, status \in StatusInputs :
       updateOrderStatus(orderId, status)
  \/ \E orderId \in OrderIdInputs, paymentStatus \in PaymentStatusInputs :
       updatePaymentStatus(orderId, paymentStatus)
  \/ \E orderId \in OrderIdInputs, gateway \in GatewayInputs, charged \in BOOLEAN :
       processPayment(orderId, gateway, charged, TRUE, TRUE)

SpecConserve == InitConserve /\ [][NextConserve]_vars

(* The quantity of product p held by the orders that are not CANCELLED *)
RECURSIVE ActiveQty(_, _, _)
ActiveQty(os, p, i) ==
  IF i > Len(os) THEN 0
  ELSE (IF os[i].estadoPedido # "CANCELLED" THEN SumQty(os[i].productos, p, 1) ELSE 0)
       + ActiveQty(os, p, i + 1)

(* C27: in the monolith, after any sequence of createOrder, cancelOrder,     *)
(* updateOrderStatus, updatePaymentStatus and processPayment calls, for      *)
(* every product the current stock plus the quantities of the product in     *)
(* the orders that are not CANCELLED equals the product's initial stock; in  *)
(* particular cancelOrder on a CANCELLED order raises no stock.              *)
C27_StockConserved ==
  /\ \A p \in PIDs :
       StockOf(products, p) + ActiveQty(orders, p, 1) = InitialStock
  /\ \A i \in 1..Len(orders) :
       orders[i].estadoPedido = "CANCELLED" =>
         CancelOrderCall(orders[i].numeroPedido, TRUE).products = products

(* The same statement for the sequences of single-item createOrder calls,   *)
(* processPayment and updatePaymentStatus calls, and cancelOrder calls on   *)
(* orders that are not CANCELLED                                            *)
C27_ConservedBySingleSteps ==
  \A p \in PIDs :
    LET held == StockOf(products, p) + ActiveQty(orders, p, 1)
    IN /\ \A items \in {l \in ItemLists : Len(l) = 1} :
            LET r == CreateOrderCall(items)
            IN StockOf(r.products, p) + ActiveQty(r.orders, p, 1) = held
       /\ \A i \in 1..Len(orders) :
            orders[i].estadoPedido \in {"PENDING", "PROCESSING"} =>
              LET r == CancelOrderCall(orders[i].numeroPedido, TRUE)
              IN StockOf(r.products, p) + ActiveQty(r.orders, p, 1) = held
       /\ \A orderId \in OrderIdInputs, gateway \in GatewayInputs, charged \in BOOLEAN :
            ActiveQty(ProcessPaymentCall(orderId, gateway, charged).orders, p, 1)
              = ActiveQty(orders, p, 1)

-----------------------------------------------------------------------------
(* Two processPayment requests of the payments microservice in flight at    *)
(* once, for the same unpaid order; both charges are accepted.  A query     *)
(* sees the rows that are committed.  The transaction that has read holds   *)
(* up the other one's commit, the one that has written holds up the other   *)
(* one's INSERT; a refused INSERT is caught as "Error al procesar pago", a  *)
(* refused COMMIT rejects the call after the order has been marked paid.    *)

PayRaceOrders ==
  {<<NewOrder(1, <<[producto_id |-> p, cantidad |-> q, precio_unitario |-> precio]>>,
              precio * q)>> : p \in PIDs, q \in 1..MaxQty, precio \in Prices}

InitPayRace ==
  /\ variant = "sqlite"
  /\ scope = "race"
  /\ products \in ProductStates
  /\ orders \in PayRaceOrders
  /\ payments = <<>>
  /\ notifications = <<>>
  /\ calls \in [Procs -> {PayCall(1, gateway) : gateway \in PAYMENT_GATEWAYS}]

NextPayRace == Resume

SpecPayRace == InitPayRace /\ [][NextPayRace]_vars

PayRaceDone == \A p \in Procs : calls[p].pc = "done"

CompletedRows(orderId) ==
  {i \in 1..Len(payments) :
     payments[i].pedido_id = orderId /\ payments[i].estado = "COMPLETED"}

(* C28: two concurrent processPayment calls for the same unpaid order in the *)
(* payments microservice, both charges accepted, leave exactly one COMPLETED *)
(* Payment row for the order: one call succeeds and the other fails as       *)
(* already paid.                                                             *)
C28_PayRaceOneRow ==
  /\ Cardinality(CompletedRows(1)) <= 1
  /\ PayRaceDone =>
       /\ Cardinality(CompletedRows(1)) = 1
       /\ \E p \in Procs :
            /\ calls[p].ret.success
            /\ \A q \in Procs \ {p} :
                 /\ ~calls[q].ret.success
                 /\ calls[q].ret.message = "La orden ya ha sido pagada"

(* What the race does keep: never two COMPLETED rows, and the order is      *)
(* marked paid once both calls have returned.                               *)
PayRaceNoDuplicate ==
  /\ Cardinality(CompletedRows(1)) <= 1
  /\ PayRaceDone => orders[1].estadoPago = "COMPLETED"

(* Both calls have returned and no Payment row is stored *)
PayRaceNoRow == PayRaceDone /\ Len(payments) = 0

(* One call after the other: the second finds the first one's row *)
C28_OneAfterTheOther ==
  \A p \in Procs :
    (calls[p].pc = "tx" /\ \A q \in Procs \ {p} : calls[q].pc = "tx") =>
      LET first == Run(calls[p], products, orders, payments, Calm)
          second == Run(calls[CHOOSE q \in Procs : q # p], products, first.orders, first.payments, Calm)
      IN /\ first.c.ret.success
         /\ second.c.ret.message = "La orden ya ha sido pagada"
         /\ Len(second.payments) = Len(payments) + 1

-----------------------------------------------------------------------------
(* Requests of different handlers in flight at once in the services, all on *)
(* one order of one unit that is placed and unpaid.                         *)

AsyncOrder ==
  NewOrder(1, <<[producto_id |-> MaxOf(PIDs), cantidad |-> 1,
                 precio_unitario |-> MaxOf(Prices)]>>, MaxOf(Prices))

InitAsync ==
  /\ variant = "sqlite"
  /\ scope = "async"
  /\ products \in Catalogs({0}, PriceInputs)
  /\ orders = <<AsyncOrder>>
  /\ payments = <<>>
  /\ notifications = <<>>
  /\ calls = [p \in Procs |-> IdleCall]

NextAsync ==
  \/ updateOrderStatus(AsyncOrder.numeroPedido, "SHIPPED")
  \/ updatePaymentStatus(AsyncOrder.numeroPedido, "COMPLETED")
  \/ cancelOrder(AsyncOrder.numeroPedido, TRUE)
  \/ \E gateway \in PAYMENT_GATEWAYS \cap GatewayInputs :
       processPayment(AsyncOrder.numeroPedido, gateway, TRUE, TRUE, TRUE)
  \/ \E paymentId \in PaymentIds : cancelPayment(paymentId)
  \/ \E paymentId \in PaymentIds : processRefund(paymentId, 0)
  \/ Resume

SpecAsync == InitAsync /\ [][NextAsync]_vars

-----------------------------------------------------------------------------
(* The order's payment status against its Payment records, in the monolith *)

InitSettle ==
  /\ variant = "json"
  /\ scope = "settle"
  /\ products \in ProductStates
  /\ orders = <<>>
  /\ payments = <<>>
  /\ notifications = <<>>
  /\ calls = [p \in Procs |-> IdleCall]

NextSettle ==
  \/ \E items \in ItemLists : createOrder(items, TRUE)
  \/ \E orderId \in OrderIdInputs, gateway \in GatewayInputs, charged \in BOOLEAN :
       processPayment(orderId, gateway, charged, TRUE, TRUE)
  \/ \E paymentId \in PaymentIdInputs, amount \in AmountInputs :
       processRefund(paymentId, amount)
  \/ \E paymentId \in PaymentIdInputs : cancelPayment(paymentId)
  \/ \E orderId \in OrderIdInputs : cancelOrder(orderId, TRUE)
  \/ \E orderId \in OrderIdInputs, status \in StatusInputs :
       updateOrderStatus(orderId, status)

SpecSettle == InitSettle /\ [][NextSettle]_vars

(* C29: in the monolith, starting with no payments and with no persistence   *)
(* failures, after any sequence of createOrder, processPayment,              *)
(* processRefund, cancelPayment, cancelOrder and updateOrderStatus calls, an *)
(* order's payment status is COMPLETED if and only if exactly one Payment    *)
(* record of the order has status COMPLETED, and no order ever has two       *)
(* COMPLETED Payment records.                                                *)
C29_PaidIffOneCompleted ==
  \A i \in 1..Len(orders) :
    /\ orders[i].estadoPago = "COMPLETED"
         <=> Cardinality(CompletedRows(orders[i].numeroPedido)) = 1
    /\ Cardinality(CompletedRows(orders[i].numeroPedido)) <= 1

(* An order paid, refunded and paid again: one REFUNDED and one COMPLETED    *)
(* Payment record, payment status COMPLETED                                  *)
C29_Witness ==
  \E i \in 1..Len(orders) :
    /\ orders[i].estadoPago = "COMPLETED"
    /\ Cardinality(CompletedRows(orders[i].numeroPedido)) = 1
    /\ \E k \in 1..Len(payments) :
         /\ payments[k].pedido_id = orders[i].numeroPedido
         /\ payments[k].estado = "REFUNDED"

-----------------------------------------------------------------------------
(* Ownership in the payment routes *)

(* The requester may not act on the order: it does not exist, or it is not  *)
(* the requester's and the requester is no administrator                    *)
DeniedOrder(user, orderId) ==
  LET orderIndex == FindIndex(orders, orderId)
  IN orderIndex = 0 \/ ~MayAct(user, orders, orderIndex)

DeniedPayment(user, paymentId) ==
  LET paymentIndex == FindPayment(payments, paymentId)
  IN paymentIndex = 0 \/ DeniedOrder(user, payments[paymentIndex].pedido_id)

Refused(r) ==
  /\ ~r.invoked
  /\ r.orders = orders
  /\ r.payments = payments
  /\ Len(r.responses) = 1
  /\ Sent(r) \in {403, 404}

(* C30: for POST /api/payments/process and DELETE /api/payments/:id, when    *)
(* the requester is neither an admin nor the owner of the order (or the      *)
(* order or payment does not exist), processPayment / cancelPayment is not   *)
(* invoked, no payment or order state changes, and exactly one response, 403 *)
(* or 404, is sent; in the monolith and in the payments microservice.        *)
C30_OwnershipEnforced ==
  \A user \in Users, checkAt \in CheckTimes :
    /\ \A orderId \in RouteOrderIds, gateway \in ValidGateways, charged \in BOOLEAN :
         DeniedOrder(user, orderId) =>
           Refused(ProcessRouteCall(user, orderId, gateway, charged, checkAt))
    /\ \A paymentId \in RoutePaymentIds :
         DeniedPayment(user, paymentId) =>
           Refused(CancelPaymentRouteCall(user, paymentId, checkAt))

(* The same statement for the monolith's routes alone *)
C30_MonolithOwnership == variant = "json" => C30_OwnershipEnforced

====
